---- MODULE Spec2Model ----
(***************************************************************************)
(* A model of the read_pdf tool of pdf-reader-mcp: the request handler     *)
(* (handleReadPdfFunc / processSingleSource), the page range parser, the   *)
(* loader's error wrapping and the page content extractor                  *)
(* (extractPageContent).                                                   *)
(*                                                                         *)
(* Strings that the code parses (page range strings) are sequences of      *)
(* one-character strings; all other strings are opaque TLA+ strings or     *)
(* tuples of their parts (a template literal is the tuple of its pieces).  *)
(***************************************************************************)
EXTENDS Integers, Sequences, FiniteSets, TLC

VARIABLES
    args,        \* the argument object handed to handleReadPdfFunc
    world,       \* world[i]: what the file system / PDF engine does for source i
    phase,       \* position of handleReadPdfFunc
    rejection,   \* the error handleReadPdfFunc rejected with, if any
    task,        \* task[i]: state of the i-th processSingleSource call
    settled,     \* indices of the per-source promises, in the order they settled
    content,     \* the content parts of the response
    calls,       \* the collaborator calls made so far (selector, loader), per source
    pg,          \* pg[p]: state of the p-th extractPageContent call of a batch
    pageWorld,   \* pageWorld[p]: what the PDF engine delivers for that page
    parser,      \* a page selector and what the page range resolver made of it
    pixels,      \* a raw image record and what encodePixelsToPNG made of it
    textRun,     \* one extractPageTexts call: its pages and its per-page calls
    imageRun     \* one extractImages call: its document, its pages and its result

hvars == <<args, world, phase, rejection, task, settled, content, calls>>
pvars == <<pg, pageWorld>>
uvars == <<parser, pixels, textRun, imageRun>>
vars == <<args, world, phase, rejection, task, settled, content, calls, pg, pageWorld,
          parser, pixels, textRun, imageRun>>

----------------------------------------------------------------------------
(* Bounds of the model *)

\* A request is bounded by its size: every source counts 1, and so does every
\* option that differs from its default, a page selector, a page beyond the
\* first, an embedded image, a failing page, a failing metadata read and a
\* failing load.
MaxCost == 4

----------------------------------------------------------------------------
(* JavaScript values *)

\* the value `undefined` of a string-valued slot
undefined == "undefined"
\* the value `undefined` of an object-valued slot
Undef == [t |-> "undefined"]
\* parseInt's NaN and the literal Infinity (page numbers are never negative
\* after the split on '-', so negative numbers are free to stand for them)
NaN == -1
Infinity == -2

Digits == {"0", "1", "2", "3", "4", "5", "6", "7", "8", "9"}
DigitVal(c) ==
    CASE c = "0" -> 0 [] c = "1" -> 1 [] c = "2" -> 2 [] c = "3" -> 3
      [] c = "4" -> 4 [] c = "5" -> 5 [] c = "6" -> 6 [] c = "7" -> 7
      [] c = "8" -> 8 [] c = "9" -> 9

IsSpace(c) == c = " "

RECURSIVE TrimStart(_)
TrimStart(s) == IF s # <<>> /\ IsSpace(Head(s)) THEN TrimStart(Tail(s)) ELSE s

RECURSIVE TrimEnd(_)
TrimEnd(s) ==
    IF s # <<>> /\ IsSpace(s[Len(s)]) THEN TrimEnd(SubSeq(s, 1, Len(s) - 1)) ELSE s

\* String.prototype.trim
Trim(s) == TrimEnd(TrimStart(s))

\* String.prototype.includes for a one-character needle
Includes(s, c) == \E i \in 1..Len(s) : s[i] = c

\* String.prototype.split for a one-character separator
RECURSIVE SplitFrom(_, _, _)
SplitFrom(s, c, cur) ==
    IF s = <<>> THEN <<cur>>
    ELSE IF Head(s) = c THEN <<cur>> \o SplitFrom(Tail(s), c, <<>>)
    ELSE SplitFrom(Tail(s), c, Append(cur, Head(s)))

Split(s, c) == SplitFrom(s, c, <<>>)

\* parseInt(s, 10): leading white space is skipped, then the longest prefix
\* of digits is read; no digit gives NaN.  (No sign can occur here.)
RECURSIVE DigitsPrefix(_, _)
DigitsPrefix(s, acc) ==
    IF s # <<>> /\ Head(s) \in Digits
    THEN DigitsPrefix(Tail(s), acc * 10 + DigitVal(Head(s)))
    ELSE acc

parseInt(s) ==
    LET t == TrimStart(s)
    IN IF t = <<>> \/ Head(t) \notin Digits THEN NaN ELSE DigitsPrefix(t, 0)

\* Array.prototype.sort((a, b) => a - b) of a set of numbers
RECURSIVE SortedSeq(_)
SortedSeq(S) ==
    IF S = {} THEN <<>>
    ELSE LET m == CHOOSE x \in S : \A y \in S : x <= y
         IN <<m>> \o SortedSeq(S \ {m})

SeqToSet(s) == {s[i] : i \in 1..Len(s)}

\* Array.prototype.filter((p) => p <= n) and filter((p) => p > n)
FilterLeq(s, n) == SelectSeq(s, LAMBDA p : p <= n)

\* a filter that keeps the page n too
FilterGeq(s, n) == SelectSeq(s, LAMBDA p : p >= n)

FilterGt(s, n) == SelectSeq(s, LAMBDA p : p > n)

----------------------------------------------------------------------------
(* Page range parsing: parser.ts *)

MAX_RANGE_SIZE == 10000

Ok(v) == [ok |-> TRUE, v |-> v]
Throw(e) == [ok |-> FALSE, err |-> e]

\* thrown values: [cls |-> "Error" | "McpError" | "object" | "circular", ...];
\* a message is the tuple of the pieces of its template literal
Error(msg) == [cls |-> "Error", message |-> msg]
\* McpError's constructor prefixes the message with the code
McpError(code, msg) == [cls |-> "McpError", code |-> code, message |-> <<"MCP error", code, msg>>]

\* a loop that stops before practicalEnd
rangeLoopExclusive(start, practicalEnd) == [i \in 1..(practicalEnd - start) |-> start + i - 1]

\* the for loop of parseRangePart: the pages start..practicalEnd in the
\* order they are added
rangeLoop(start, practicalEnd) == [i \in 1..(practicalEnd - start + 1) |-> start + i - 1]

\* Set.prototype.add for each page of added (a run without repetition): a
\* Set keeps its elements in insertion order and ignores one it has
addAll(pages, added) ==
    LET has == {pages[i] : i \in 1..Len(pages)}
    IN pages \o SelectSeq(added, LAMBDA p : p \notin has)

\* Array.from(pages).sort((a, b) => a - b)
sortAscending(pages) == SortSeq(pages, LAMBDA a, b : a < b)

\* parseRangePart: the pages one token adds and whether console.warn is
\* called, or the Error it throws
parseRangePart(part) ==
    LET trimmedPart == Trim(part)
    IN IF Includes(trimmedPart, "-")
       THEN LET pieces == Split(trimmedPart, "-")
                startStr == pieces[1]
                endStr == pieces[2]
                start == parseInt(startStr)
                end == IF endStr = <<>> THEN Infinity ELSE parseInt(endStr)
            IN IF start = NaN \/ end = NaN \/ start <= 0
                    \/ (end # Infinity /\ start > end)
               THEN Throw(Error(<<"Invalid page range values: ", trimmedPart>>))
               ELSE LET practicalEnd ==
                            IF end = Infinity \/ end > start + MAX_RANGE_SIZE
                            THEN start + MAX_RANGE_SIZE ELSE end
                    IN [ok |-> TRUE, v |-> rangeLoop(start, practicalEnd),
                        warn |-> end = Infinity /\ practicalEnd = start + MAX_RANGE_SIZE,
                        start |-> start]
       ELSE LET page == parseInt(trimmedPart)
            IN IF page = NaN \/ page <= 0
               THEN Throw(Error(<<"Invalid page number: ", trimmedPart>>))
               ELSE [ok |-> TRUE, v |-> <<page>>, warn |-> FALSE, start |-> page]

\* parsePageRanges: the loop over the tokens stops at the first throw; log
\* is what console.warn has been called with, the range starts in order
RECURSIVE parseParts(_, _, _)
parseParts(parts, pages, log) ==
    IF parts = <<>> THEN [ok |-> TRUE, v |-> pages, log |-> log]
    ELSE LET r == parseRangePart(Head(parts))
         IN IF r.ok
            THEN parseParts(Tail(parts), addAll(pages, r.v),
                            IF r.warn THEN Append(log, r.start) ELSE log)
            ELSE [ok |-> FALSE, err |-> r.err, log |-> log]

parsePageRanges(ranges) ==
    LET r == parseParts(Split(ranges, ","), <<>>, <<>>)
    IN IF ~r.ok THEN r
       ELSE IF r.v = <<>>
       THEN [ok |-> FALSE, log |-> r.log,
             err |-> Error(<<"Page range string resulted in zero valid pages.">>)]
       ELSE [ok |-> TRUE, v |-> sortAscending(r.v), log |-> r.log]

\* getTargetPages: Ok(undefined-marker), Ok(pages) or the McpError thrown
NoPages == [t |-> "none"]
StrPages(s) == [t |-> "str", v |-> s]
\* an array of numbers: v holds the integer parts and frac the indices of
\* the elements that have a fractional part
FracPages(a, frac) == [t |-> "arr", v |-> a, frac |-> frac]
ArrPages(a) == FracPages(a, {})

getTargetPages(sourcePages, sourceDescription) ==
    LET wrap(r) ==
            IF r.ok THEN Ok([given |-> TRUE, pages |-> r.v])
            ELSE Throw(McpError("InvalidParams",
                     <<"Invalid page specification for source ", sourceDescription, r.err.message>>))
    IN IF sourcePages.t = "none" \/ (sourcePages.t = "str" /\ sourcePages.v = <<>>)
       THEN Ok([given |-> FALSE, pages |-> <<>>])
       ELSE IF sourcePages.t = "str" THEN wrap(parsePageRanges(sourcePages.v))
       ELSE IF \E i \in 1..Len(sourcePages.v) : i \in sourcePages.frac \/ sourcePages.v[i] <= 0
       THEN wrap(Throw(Error(<<"Page numbers in array must be positive integers.">>)))
       ELSE IF sourcePages.v = <<>>
       THEN wrap(Throw(Error(<<"Page specification resulted in an empty set of pages.">>)))
       ELSE wrap(Ok(SortedSeq(SeqToSet(sourcePages.v))))

\* a plausible slip: the full-document flag is looked at first
determinePagesToProcessFlagFirst(targetPages, totalPages, includeFullText) ==
    IF includeFullText
    THEN [pagesToProcess |-> [i \in 1..totalPages |-> i], invalidPages |-> <<>>]
    ELSE IF targetPages.given
    THEN [pagesToProcess |-> FilterLeq(targetPages.pages, totalPages),
          invalidPages |-> FilterGt(targetPages.pages, totalPages)]
    ELSE [pagesToProcess |-> <<>>, invalidPages |-> <<>>]

\* determinePagesToProcess
determinePagesToProcess(targetPages, totalPages, includeFullText) ==
    IF targetPages.given
    THEN [pagesToProcess |-> FilterLeq(targetPages.pages, totalPages),
          invalidPages |-> FilterGt(targetPages.pages, totalPages)]
    ELSE IF includeFullText
    THEN [pagesToProcess |-> [i \in 1..totalPages |-> i], invalidPages |-> <<>>]
    ELSE [pagesToProcess |-> <<>>, invalidPages |-> <<>>]

\* The page range resolver on its own: one selector, and the result of each
\* of the three exported functions once it has been applied.
NotRun == [run |-> FALSE]
Ran(r) == [run |-> TRUE, r |-> r]

NoParse == [sel |-> NoPages, parsed |-> NotRun, target |-> NotRun, split |-> NotRun]
ParserIdle == parser = NoParse

\* the length of the range strings and page arrays, the page count of the
\* documents
MaxRangeLen == 3
MaxTotalPages == 3

RangeChars == {"0", "1", "2", "-", ",", " ", "a"}
RangeStrings == UNION {[1..n -> RangeChars] : n \in 0..MaxRangeLen}

\* range strings of the tests and of the README, and closed and open ranges
\* longer than MAX_RANGE_SIZE
ExampleRanges ==
    {<<"1", "-", "3", ",", "5", ",", "7", "-", "9">>,
     <<"3", ",", "1", ",", "2", ",", "1", ",", "3">>,
     <<" ", "1", " ", "-", " ", "3", " ", ",", " ", "5", " ">>,
     <<"1", "-", "1", "0">>,
     <<"1", "-", "5", ",", "1", "0", "-", "1", "5", ",", "2", "0">>,
     <<"a", "b", "c">>, <<"5", "-", "3">>, <<"0", "-", "5">>,
     <<"2", "-", ",", "1", "-", "3">>, <<"2", "-", ",", "1", "-">>,
     <<"1", "-", "2", "0", "0", "0", "0">>,
     <<"5", "-", "1", "0", "0", "0", "5">>,
     <<"5", "-", "1", "0", "0", "0", "6">>}

PageArrays ==
    {ArrPages(a) : a \in UNION {[1..n -> 0..MaxTotalPages] : n \in 0..MaxRangeLen}}
    \cup {FracPages(<<1, 2, 3>>, {2})}

Selectors == {NoPages} \cup {StrPages(r) : r \in RangeStrings \cup ExampleRanges} \cup PageArrays

SourceDescriptions == {<<"test.pdf">>, <<"http://example.com/a.pdf">>}

----------------------------------------------------------------------------
(* The pixel decoder: encodePixelsToPNG of dist/pdf/extractor.js           *)

\* new PNG({ width, height }): the raster is a zero-filled buffer of
\* 4 * width * height bytes
NewPNG(width, height) == [j \in 1..(4 * width * height) |-> 0]

\* pixelData[k] ?? 0, k counted from 0
SampleOr0(pixelData, k) == IF k < Len(pixelData) THEN pixelData[k + 1] ELSE 0

\* a plausible slip: the kind code taken for the channel count
channelsOfKindCode(kind) == kind

\* kind 1 is grayscale (1 channel), 3 is RGBA (4 channels), anything else RGB
channelsOf(kind) == IF kind = 1 THEN 1 ELSE IF kind = 3 THEN 4 ELSE 3
formatOf(kind) == IF kind = 1 THEN "grayscale" ELSE IF kind = 3 THEN "rgba" ELSE "rgb"

\* the raster png.data that encodePixelsToPNG hands to PNG.sync.write
rasterOf(pixelData, width, height, channels) ==
    IF channels = 4 THEN pixelData
    ELSE IF channels = 3
    THEN [j \in 1..(4 * width * height) |->
             LET i == (j - 1) \div 4
                 c == (j - 1) % 4
             IN IF c = 3 THEN 255 ELSE SampleOr0(pixelData, i * 3 + c)]
    ELSE IF channels = 1
    THEN [j \in 1..(4 * width * height) |->
             LET i == (j - 1) \div 4
                 c == (j - 1) % 4
             IN IF c = 3 THEN 255 ELSE SampleOr0(pixelData, i)]
    ELSE NewPNG(width, height)

\* the base64 text of the PNG: the container of a raster and its dimensions
encodePixelsToPNG(pixelData, width, height, channels) ==
    [base64 |-> "png", width |-> width, height |-> height,
     raster |-> rasterOf(pixelData, width, height, channels)]

\* the number of pixels of an image
MaxPixels == 2

Samples == {0, 255}

\* raw image records with a sample buffer that is full or too short
RawImageRecords ==
    UNION {UNION {{[width |-> w, height |-> h, kind |-> kind, data |-> d] :
                      d \in UNION {[1..n -> Samples] : n \in 0..(w * h * channelsOf(kind))}} :
                  kind \in {1, 2, 3}} :
           <<w, h>> \in {x \in (1..MaxPixels) \X (1..MaxPixels) : x[1] * x[2] <= MaxPixels}}

NoPixels == [img |-> Undef, out |-> NotRun]
PixelsIdle == pixels = NoPixels

\* no extractPageTexts call and no extractImages call is under examination
NoRun == [t |-> "none"]
RunsIdle == textRun = NoRun /\ imageRun = NoRun

----------------------------------------------------------------------------
(* Objects: a JavaScript object is a function from its keys to its values *)

EmptyObj == [k \in {} |-> TRUE]
With(o, key, v) == [k \in (DOMAIN o) \cup {key} |-> IF k = key THEN v ELSE o[k]]
Without(o, key) == [k \in (DOMAIN o) \ {key} |-> o[k]]
Has(o, key) == key \in DOMAIN o

\* Array.prototype.join: the pieces with the separator between them
RECURSIVE Join(_, _)
Join(parts, sep) ==
    IF parts = <<>> THEN <<>>
    ELSE IF Len(parts) = 1 THEN <<Head(parts)>>
    ELSE <<Head(parts), sep>> \o Join(Tail(parts), sep)

\* join of strings that are themselves tuples of pieces: one longer string
RECURSIVE JoinText(_, _)
JoinText(parts, sep) ==
    IF parts = <<>> THEN <<>>
    ELSE IF Len(parts) = 1 THEN Head(parts)
    ELSE Head(parts) \o <<sep>> \o JoinText(Tail(parts), sep)

\* String(v) and JSON.stringify(v) of a thrown value that is no Error
StringOf(e) == IF e.cls \in {"object", "circular"} THEN <<"[object Object]">> ELSE e.message
\* error instanceof Error ? error.message : String(error)
MessageOf(e) == IF e.cls \in {"Error", "McpError"} THEN e.message ELSE StringOf(e)

----------------------------------------------------------------------------
(* Argument validation: schemas/readPdf.js *)

PageChars == Digits \cup {",", "-"}

\* val.replace(/\s/g, '')
RECURSIVE StripSpaces(_)
StripSpaces(s) ==
    IF s = <<>> THEN <<>>
    ELSE (IF IsSpace(Head(s)) THEN <<>> ELSE <<Head(s)>>) \o StripSpaces(Tail(s))

pageSpecifierSchema(pages) ==
    CASE pages.t = "none" -> TRUE
      [] pages.t = "arr" ->
            /\ Len(pages.v) >= 1
            /\ \A i \in 1..Len(pages.v) : i \notin pages.frac /\ pages.v[i] >= 1
      [] pages.t = "str" ->
            /\ Len(pages.v) >= 1
            /\ LET stripped == StripSpaces(pages.v)
               IN Len(stripped) >= 1 /\ \A i \in 1..Len(stripped) : stripped[i] \in PageChars

\* a plausible slip: the refinement on path/url left out
pdfSourceSchemaUnrefined(source) == pageSpecifierSchema(source.pages)

pdfSourceSchema(source) ==
    /\ pageSpecifierSchema(source.pages)
    /\ \/ (source.path # undefined /\ source.url = undefined)
       \/ (source.path = undefined /\ source.url # undefined)

readPdfArgsSchema(a) ==
    /\ a.kind = "object"
    /\ Len(a.sources) >= 1
    /\ \A i \in 1..Len(a.sources) : pdfSourceSchema(a.sources[i])

----------------------------------------------------------------------------
(* Loading: pdf/loader.js *)

\* what the file system and the PDF engine do for one source:
\*   fail: "none", or the step of the loader that fails
\*   doc:  the document the engine delivers when nothing fails
FileFailures == {"ENOENT", "readError"}
EngineFailures == {"parseReject", "throwError", "throwObject", "throwCircular"}

loadPdfDocument(source, sourceDescription, w) ==
    IF source.path # undefined /\ w.fail = "ENOENT"
    THEN Throw(McpError("InvalidRequest", <<"File not found at '", source.path, "'.">>))
    ELSE IF source.path # undefined /\ w.fail = "readError"
    THEN Throw(McpError("InvalidRequest",
             <<"Failed to prepare PDF source ", sourceDescription, ". Reason: ", "read failed">>))
    ELSE IF source.path = undefined /\ source.url = undefined
    THEN Throw(McpError("InvalidParams", <<"Source ", sourceDescription, " missing 'path' or 'url'.">>))
    \* getDocument() is called outside the try block: what it throws is not wrapped
    ELSE IF w.fail = "throwError" THEN Throw(Error(<<"getDocument failed">>))
    ELSE IF w.fail = "throwObject" THEN Throw([cls |-> "object", json |-> <<"{custom}">>])
    ELSE IF w.fail = "throwCircular" THEN Throw([cls |-> "circular"])
    ELSE IF w.fail = "parseReject"
    THEN Throw(McpError("InvalidRequest",
             <<"Failed to load PDF document from ", sourceDescription, ". Reason: ", "bad pdf">>))
    ELSE Ok(w.doc)

----------------------------------------------------------------------------
(* Extraction as the handler sees it: pdf/extractor.ts *)

\* a document: numPages; failPage, the page whose getPage rejects (0: none);
\* metaOk, whether getMetadata resolves; imgs[p], for every image paint
\* operation of page p in operator order, the format of the image it
\* resolves to, or "absent" when it resolves to no image
\* a plausible slip: the page count read inside the try block, after the
\* metadata
extractMetadataAndPageCountInTry(pdfDocument, includeMetadata, includePageCount) ==
    LET o1 == IF includePageCount THEN With(EmptyObj, "num_pages", pdfDocument.numPages)
              ELSE EmptyObj
    IN IF includeMetadata
       THEN (IF pdfDocument.metaOk
             THEN With(With(o1, "info", "info"), "metadata", "metadata")
             ELSE EmptyObj)
       ELSE o1

extractMetadataAndPageCount(pdfDocument, includeMetadata, includePageCount) ==
    LET o1 == IF includePageCount THEN With(EmptyObj, "num_pages", pdfDocument.numPages)
              ELSE EmptyObj
    IN IF includeMetadata /\ pdfDocument.metaOk
       THEN With(With(o1, "info", "info"), "metadata", "metadata")
       ELSE o1

extractSinglePageText(pdfDocument, pageNum) ==
    IF pageNum = pdfDocument.failPage
    THEN [page |-> pageNum, text |-> <<"Error processing page: ", "getPage failed">>]
    ELSE [page |-> pageNum, text |-> <<"text of page ", ToString(pageNum)>>]

\* Array.prototype.sort((a, b) => a.page - b.page): stable
RECURSIVE InsertByPage(_, _)
InsertByPage(sorted, x) ==
    IF sorted = <<>> THEN <<x>>
    ELSE IF Head(sorted).page - x.page > 0 THEN <<x>> \o sorted
    ELSE <<Head(sorted)>> \o InsertByPage(Tail(sorted), x)

RECURSIVE SortByPage(_)
SortByPage(s) ==
    IF s = <<>> THEN <<>>
    ELSE InsertByPage(SortByPage(SubSeq(s, 1, Len(s) - 1)), s[Len(s)])

extractPageTexts(pdfDocument, pagesToProcess) ==
    SortByPage([i \in 1..Len(pagesToProcess) |->
                   extractSinglePageText(pdfDocument, pagesToProcess[i])])

\* the payload of an encoded image: never equal to any other field
Payload(pageNum, index) == <<"base64 png", ToString(pageNum), ToString(index)>>

\* a plausible slip: the index counts the images that came out
RECURSIVE extractImagesFromPageDense(_, _, _)
extractImagesFromPageDense(ops, pageNum, arrayIndex) ==
    IF arrayIndex >= Len(ops) THEN <<>>
    ELSE (IF ops[arrayIndex + 1] = "absent" THEN <<>>
          ELSE LET index == Cardinality({k \in 1..arrayIndex : ops[k] # "absent"})
               IN <<[page |-> pageNum, index |-> index, width |-> 2, height |-> 1,
                     format |-> ops[arrayIndex + 1], data |-> Payload(pageNum, index)]>>)
         \o extractImagesFromPageDense(ops, pageNum, arrayIndex + 1)

RECURSIVE extractImagesFromPage(_, _, _)
extractImagesFromPage(ops, pageNum, arrayIndex) ==
    IF arrayIndex >= Len(ops) THEN <<>>
    ELSE (IF ops[arrayIndex + 1] = "absent" THEN <<>>
          ELSE <<[page |-> pageNum, index |-> arrayIndex, width |-> 2, height |-> 1,
                  format |-> ops[arrayIndex + 1], data |-> Payload(pageNum, arrayIndex)]>>)
         \o extractImagesFromPage(ops, pageNum, arrayIndex + 1)

RECURSIVE extractImages(_, _)
extractImages(pdfDocument, pagesToProcess) ==
    IF pagesToProcess = <<>> THEN <<>>
    ELSE LET pageNum == Head(pagesToProcess)
         IN (IF pageNum = pdfDocument.failPage THEN <<>>
             ELSE extractImagesFromPage(pdfDocument.imgs[pageNum], pageNum, 0))
            \o extractImages(pdfDocument, Tail(pagesToProcess))

\* a plausible slip: one warning for each page
buildWarningsEach(invalidPages, totalPages) ==
    [k \in 1..Len(invalidPages) |->
        <<"Requested page numbers ", ToString(invalidPages[k]),
          " exceed total pages (", ToString(totalPages), ").">>]

buildWarnings(invalidPages, totalPages) ==
    IF Len(invalidPages) = 0 THEN <<>>
    ELSE << <<"Requested page numbers ">>
              \o Join([i \in 1..Len(invalidPages) |-> ToString(invalidPages[i])], ", ")
              \o <<" exceed total pages (", ToString(totalPages), ").">> >>

----------------------------------------------------------------------------
(* The handler: handlers/readPdf.ts *)

Sources == IF args.kind = "object" THEN 1..Len(args.sources) ELSE {}

sourceDescriptionOf(source) ==
    IF source.path # undefined THEN source.path
    ELSE IF source.url # undefined THEN source.url
    ELSE "unknown source"

IdleTask == [pc |-> "idle", outcome |-> "pending"]

\* the catch block of processSingleSource: the result it returns, or the
\* TypeError JSON.stringify throws out of it for a value it cannot serialise
catchBlock(individualResult, sourceDescription, error) ==
    LET prefix == <<"Failed to process PDF from ", sourceDescription, ".">>
        done(msg) == Ok(With(With(With(individualResult, "error", msg),
                                  "success", FALSE), "data", Undef))
    IN IF error.cls = "McpError" THEN done(error.message)
       ELSE IF error.cls = "Error" THEN done(prefix \o <<" Reason: ">> \o error.message)
       ELSE IF error.cls = "circular"
       THEN Throw([cls |-> "Error", name |-> "TypeError",
                   message |-> <<"Converting circular structure to JSON">>])
       ELSE done(prefix \o <<" Unknown error: ">> \o error.json)

\* the promise of processSingleSource settles: fulfilled with the result, or
\* rejected with what the catch block threw
Settle(i, r) ==
    /\ task' = [task EXCEPT ![i] =
                  IF r.ok THEN [pc |-> "done", outcome |-> "fulfilled", result |-> r.v]
                  ELSE [pc |-> "done", outcome |-> "rejected", reason |-> r.err]]
    /\ settled' = Append(settled, i)

Fail(i, error) ==
    Settle(i, catchBlock(task[i].individualResult, task[i].sourceDescription, error))

\* a plausible slip: the data is attached but the flag is left as initialised
successResultFlagForgotten(individualResult, output) == With(individualResult, "data", output)

\* individualResult = { ...individualResult, data: output, success: true }
successResult(individualResult, output) ==
    With(With(individualResult, "data", output), "success", TRUE)

Succeed(i, output) == Settle(i, Ok(successResult(task[i].individualResult, output)))

\* readPdfArgsSchema.parse(args) and, for valid arguments, sources.map(...)
\* up to the creation of the per-source calls
Parse ==
    /\ phase = "called"
    /\ IF readPdfArgsSchema(args)
       THEN /\ phase' = "processing"
            /\ task' = [i \in Sources |->
                          [pc |-> "start", outcome |-> "pending",
                           sourceDescription |-> sourceDescriptionOf(args.sources[i]),
                           individualResult |->
                               [source |-> sourceDescriptionOf(args.sources[i]),
                                success |-> FALSE]]]
            /\ UNCHANGED rejection
       ELSE /\ phase' = "rejected"
            /\ rejection' = McpError("InvalidParams", <<"Invalid arguments">>)
            /\ UNCHANGED task
    /\ UNCHANGED <<args, world, settled, content, calls, pvars, uvars>>

\* processSingleSource up to its first await: the page selector is resolved.
\* sources.map runs these synchronous parts in request order.
Start(i) ==
    /\ phase \in {"processing", "rejected"}
    /\ task[i].pc = "start"
    /\ \A j \in Sources : j < i => task[j].pc # "start"
    /\ calls' = calls \cup {<<"getTargetPages", i>>}
    /\ LET r == getTargetPages(args.sources[i].pages, task[i].sourceDescription)
       IN IF r.ok
          THEN /\ task' = [task EXCEPT ![i] = With(With(@, "pc", "load"), "targetPages", r.v)]
               /\ UNCHANGED settled
          ELSE Fail(i, r.err)
    /\ UNCHANGED <<args, world, phase, rejection, content, pvars, uvars>>

\* loadPdfDocument
Load(i) ==
    /\ phase \in {"processing", "rejected"}
    /\ task[i].pc = "load"
    /\ \A j \in Sources : task[j].pc # "start"
    /\ calls' = calls \cup {<<"loadPdfDocument", i>>}
    /\ LET r == loadPdfDocument(args.sources[i], task[i].sourceDescription, world[i])
       IN IF r.ok
          THEN /\ task' = [task EXCEPT ![i] = With(With(@, "pc", "meta"), "pdfDocument", r.v)]
               /\ UNCHANGED settled
          ELSE Fail(i, r.err)
    /\ UNCHANGED <<args, world, phase, rejection, content, pvars, uvars>>

\* extractMetadataAndPageCount, determinePagesToProcess, buildWarnings
Meta(i) ==
    /\ phase \in {"processing", "rejected"}
    /\ task[i].pc = "meta"
    /\ LET pdfDocument == task[i].pdfDocument
           totalPages == pdfDocument.numPages
           metadataOutput == extractMetadataAndPageCount(pdfDocument, args.include_metadata,
                                                         args.include_page_count)
           d == determinePagesToProcess(task[i].targetPages, totalPages, args.include_full_text)
           warnings == buildWarnings(d.invalidPages, totalPages)
           output == IF Len(warnings) > 0 THEN With(metadataOutput, "warnings", warnings)
                     ELSE metadataOutput
       IN IF Len(d.pagesToProcess) > 0
          THEN /\ task' = [task EXCEPT ![i] =
                             With(With(With(@, "pc", "texts"), "output", output),
                                  "pagesToProcess", d.pagesToProcess)]
               /\ UNCHANGED settled
          ELSE Succeed(i, output)
    /\ calls' = calls \cup (IF args.include_metadata THEN {<<"getMetadata", i>>} ELSE {})
    /\ UNCHANGED <<args, world, phase, rejection, content, pvars, uvars>>

\* extractPageTexts
Texts(i) ==
    /\ phase \in {"processing", "rejected"}
    /\ task[i].pc = "texts"
    /\ LET extractedPageTexts == extractPageTexts(task[i].pdfDocument, task[i].pagesToProcess)
           output ==
               IF task[i].targetPages.given
               THEN With(task[i].output, "page_texts", extractedPageTexts)
               ELSE With(task[i].output, "full_text",
                         JoinText([k \in 1..Len(extractedPageTexts) |-> extractedPageTexts[k].text],
                                  "\n\n"))
       IN IF args.include_images
          THEN /\ task' = [task EXCEPT ![i] = With(With(@, "pc", "images"), "output", output)]
               /\ UNCHANGED settled
          ELSE Succeed(i, output)
    /\ UNCHANGED <<args, world, phase, rejection, content, calls, pvars, uvars>>

\* extractImages
Images(i) ==
    /\ phase \in {"processing", "rejected"}
    /\ task[i].pc = "images"
    /\ LET extractedImages == extractImages(task[i].pdfDocument, task[i].pagesToProcess)
       IN Succeed(i, IF Len(extractedImages) > 0
                     THEN With(task[i].output, "images", extractedImages)
                     ELSE task[i].output)
    /\ UNCHANGED <<args, world, phase, rejection, content, calls, pvars, uvars>>

\* Promise.all rejects as soon as one per-source promise rejects, and the
\* handler's await throws that reason; the other calls run on unobserved
RejectAll ==
    /\ phase = "processing"
    /\ \E i \in Sources : task[i].outcome = "rejected"
    /\ LET first == CHOOSE k \in 1..Len(settled) :
                        /\ task[settled[k]].outcome = "rejected"
                        /\ \A m \in 1..(k - 1) : task[settled[m]].outcome # "rejected"
       IN rejection' = task[settled[first]].reason
    /\ phase' = "rejected"
    /\ UNCHANGED <<args, world, task, settled, content, calls, pvars, uvars>>

\* result.data?.images
HasImages(result) ==
    Has(result, "data") /\ result.data # Undef /\ Has(result.data, "images")

imageInfo(images) ==
    [k \in 1..Len(images) |->
        [page |-> images[k].page, index |-> images[k].index, width |-> images[k].width,
         height |-> images[k].height, format |-> images[k].format]]

\* a plausible slip: the result goes into the summary as it is
resultForJsonUnstripped(result) == result

resultForJson(result) ==
    IF HasImages(result)
    THEN With(result, "data",
              With(Without(result.data, "images"), "image_info", imageInfo(result.data.images)))
    ELSE result

\* JSON.stringify leaves out the keys whose value is undefined
Stringify(result) ==
    IF Has(result, "data") /\ result.data = Undef THEN Without(result, "data") ELSE result

mimeTypeOf(image) == IF image.format = "rgba" THEN "image/png" ELSE "image/jpeg"

imagePart(image) == [type |-> "image", data |-> image.data, mimeType |-> mimeTypeOf(image)]

RECURSIVE imagesOfPage(_, _)
imagesOfPage(images, pageNum) ==
    IF images = <<>> THEN <<>>
    ELSE (IF Head(images).page = pageNum THEN <<imagePart(Head(images))>> ELSE <<>>)
         \o imagesOfPage(Tail(images), pageNum)

RECURSIVE imagesOfPages(_, _)
imagesOfPages(images, pageNumbers) ==
    IF pageNumbers = <<>> THEN <<>>
    ELSE imagesOfPage(images, Head(pageNumbers)) \o imagesOfPages(images, Tail(pageNumbers))

\* the loop body of the loop over the results: the parts one result adds
partsOfResult(result) ==
    IF ~result.success \/ ~Has(result, "data") \/ result.data = Undef THEN <<>>
    ELSE LET data == result.data
             forPageTexts ==
                 IF Has(data, "page_texts") /\ Has(data, "images")
                 THEN imagesOfPages(data.images,
                          [k \in 1..Len(data.page_texts) |-> data.page_texts[k].page])
                 ELSE <<>>
             forFullText ==
                 IF Has(data, "full_text") /\ data.full_text # <<>> /\ Has(data, "images")
                 THEN imagesOfPages(data.images,
                          SortedSeq({data.images[k].page : k \in 1..Len(data.images)}))
                 ELSE <<>>
         IN forPageTexts \o forFullText

RECURSIVE partsOfResults(_)
partsOfResults(results) ==
    IF results = <<>> THEN <<>>
    ELSE partsOfResult(Head(results)) \o partsOfResults(Tail(results))

\* the rest of handleReadPdfFunc, once Promise.all has fulfilled
buildContent(results, include_images) ==
    LET resultsForJson == [i \in 1..Len(results) |-> resultForJson(results[i])]
        summary == [type |-> "text",
                    text |-> [results |-> [i \in 1..Len(results) |-> Stringify(resultsForJson[i])]]]
    IN <<summary>> \o (IF include_images THEN partsOfResults(results) ELSE <<>>)

\* a plausible slip: the results gathered in the order the calls completed
resultsInSettleOrder == [k \in 1..Len(settled) |-> task[settled[k]].result]

\* the value of Promise.all(sources.map(...)): one result per source, by index
resultsOfAll == [i \in 1..Len(args.sources) |-> task[i].result]

Respond ==
    /\ phase = "processing"
    /\ \A i \in Sources : task[i].outcome = "fulfilled"
    /\ content' = buildContent(resultsOfAll, args.include_images)
    /\ phase' = "responded"
    /\ UNCHANGED <<args, world, rejection, task, settled, calls, pvars, uvars>>

----------------------------------------------------------------------------
(* The requests and the worlds the handler is run on *)

ImageOutcomes == {"grayscale", "rgb", "rgba", "absent"}

SeqsUpTo(S, n) == UNION {[1..m -> S] : m \in 0..n}

\* the image operations of pages 1..n, at most k operations in all
RECURSIVE ImgFns(_, _)
ImgFns(n, k) ==
    IF n = 0 THEN {<<>>}
    ELSE UNION {{Append(f, ops) : f \in ImgFns(n - 1, k - Len(ops))} :
                   ops \in SeqsUpTo(ImageOutcomes, k)}

DefaultDoc == [numPages |-> 1, failPage |-> 0, metaOk |-> TRUE, imgs |-> << <<>> >>]

BaseCost(n, fp, mo) == (n - 1) + (IF fp # 0 THEN 1 ELSE 0) + (IF mo THEN 0 ELSE 1)

Docs(b) ==
    UNION {{[numPages |-> n, failPage |-> fp, metaOk |-> mo, imgs |-> f] :
               f \in ImgFns(n, b - BaseCost(n, fp, mo))} :
           <<n, fp, mo>> \in {x \in (1..(b + 1)) \X (0..(b + 1)) \X BOOLEAN :
                                  x[2] <= x[1] /\ BaseCost(x[1], x[2], x[3]) <= b}}

RECURSIVE SumLen(_)
SumLen(f) == IF f = <<>> THEN 0 ELSE Len(Head(f)) + SumLen(Tail(f))

DocCost(d) == BaseCost(d.numPages, d.failPage, d.metaOk) + SumLen(d.imgs)

WorldCost(w) == IF w.fail # "none" THEN 1 ELSE DocCost(w.doc)

Worlds(b, source) ==
    {[fail |-> "none", doc |-> d] : d \in Docs(b)}
    \cup (IF b >= 1
          THEN {[fail |-> f, doc |-> DefaultDoc] :
                  f \in EngineFailures
                        \cup (IF source.path # undefined THEN FileFailures ELSE {})}
          ELSE {})

ValidIds == {[path |-> "a.pdf", url |-> undefined], [path |-> undefined, url |-> "http://h/b.pdf"]}
InvalidIds == {[path |-> "a.pdf", url |-> "http://h/b.pdf"], [path |-> undefined, url |-> undefined]}

\* page selectors: four valid ones, one the schema accepts and the parser
\* rejects, and two the schema rejects
PageSpecs ==
    {ArrPages(<<2, 1, 2>>), StrPages(<<"1", "-", "2">>), StrPages(<<"2", "-", "1">>),
     StrPages(<<"1", ",", "a">>), ArrPages(<<0, 1>>),
     ArrPages(<<3, 1, 2>>), StrPages(<<"3">>)}

SourceReqs(b) ==
    {[path |-> id.path, url |-> id.url, pages |-> NoPages] : id \in ValidIds}
    \cup (IF b >= 1
          THEN {[path |-> id.path, url |-> id.url, pages |-> NoPages] : id \in InvalidIds}
               \cup {[path |-> id.path, url |-> id.url, pages |-> ps] :
                        id \in ValidIds, ps \in PageSpecs}
          ELSE {})

\* the sources of the catalogue that are well formed
WellFormed(source) ==
    /\ [path |-> source.path, url |-> source.url] \in ValidIds
    /\ source.pages \notin {StrPages(<<"1", ",", "a">>), ArrPages(<<0, 1>>)}

SourceCost(source) == IF source.pages = NoPages /\ WellFormed(source) THEN 0 ELSE 1

\* a malformed source gets the default world
Items(b) ==
    UNION {{[source |-> src, w |-> w] :
               w \in IF WellFormed(src) THEN Worlds(b - SourceCost(src), src)
                     ELSE {[fail |-> "none", doc |-> DefaultDoc]}} :
           src \in SourceReqs(b)}

ItemCost(it) == 1 + SourceCost(it.source) + WorldCost(it.w)

RECURSIVE Batches(_)
Batches(b) ==
    {<<>>} \cup
    (IF b < 1 THEN {}
     ELSE UNION {{<<it>> \o rest : rest \in Batches(b - ItemCost(it))} : it \in Items(b - 1)})

RECURSIVE BatchCost(_)
BatchCost(batch) == IF batch = <<>> THEN 0 ELSE ItemCost(Head(batch)) + BatchCost(Tail(batch))

FlagCost(f) ==
    (IF f.include_full_text THEN 1 ELSE 0) + (IF f.include_images THEN 1 ELSE 0)
    + (IF f.include_metadata THEN 0 ELSE 1) + (IF f.include_page_count THEN 0 ELSE 1)

Flags(b) ==
    {f \in [include_full_text : BOOLEAN, include_metadata : BOOLEAN,
            include_page_count : BOOLEAN, include_images : BOOLEAN] : FlagCost(f) <= b}

NoBatch == [p \in {} |-> TRUE]

InitPageIdle == pg = NoBatch /\ pageWorld = NoBatch

Init ==
    /\ \E batch \in Batches(MaxCost) :
       \E f \in Flags(MaxCost - BatchCost(batch)) :
       \E kind \in {"object", "notObject"} :
          /\ kind = "notObject" => batch = <<>> /\ FlagCost(f) = 0
          \* what the handler never reads is left at its default: the image
          \* operations without include_images, getMetadata without include_metadata
          /\ \A i \in 1..Len(batch) :
                /\ ~f.include_images => SumLen(batch[i].w.doc.imgs) = 0
                /\ ~f.include_metadata => batch[i].w.doc.metaOk
          /\ args = [kind |-> kind,
                     sources |-> [i \in 1..Len(batch) |-> batch[i].source],
                     include_full_text |-> f.include_full_text,
                     include_metadata |-> f.include_metadata,
                     include_page_count |-> f.include_page_count,
                     include_images |-> f.include_images]
          /\ world = [i \in 1..Len(batch) |-> batch[i].w]
          /\ task = [i \in 1..Len(batch) |-> IdleTask]
    /\ phase = "called"
    /\ rejection = Undef
    /\ settled = <<>>
    /\ content = <<>>
    /\ calls = {}
    /\ InitPageIdle
    /\ ParserIdle
    /\ PixelsIdle
    /\ RunsIdle

Next ==
    \/ Parse
    \/ \E i \in Sources : Start(i)
    \/ \E i \in Sources : Load(i)
    \/ \E i \in Sources : Meta(i)
    \/ \E i \in Sources : Texts(i)
    \/ \E i \in Sources : Images(i)
    \/ RejectAll
    \/ Respond

Spec == Init /\ [][Next]_vars

----------------------------------------------------------------------------
(* processSingleSource as one function of its source and its world: what *)
(* the call returns (or throws) when it runs alone                        *)

processSingleSource(source, w, options) ==
    LET sourceDescription == sourceDescriptionOf(source)
        individualResult == [source |-> sourceDescription, success |-> FALSE]
        t == getTargetPages(source.pages, sourceDescription)
        l == loadPdfDocument(source, sourceDescription, w)
    IN IF ~t.ok THEN catchBlock(individualResult, sourceDescription, t.err)
       ELSE IF ~l.ok THEN catchBlock(individualResult, sourceDescription, l.err)
       ELSE LET pdfDocument == l.v
                totalPages == pdfDocument.numPages
                metadataOutput == extractMetadataAndPageCount(pdfDocument,
                                      options.include_metadata, options.include_page_count)
                d == determinePagesToProcess(t.v, totalPages, options.include_full_text)
                warnings == buildWarnings(d.invalidPages, totalPages)
                o1 == IF Len(warnings) > 0 THEN With(metadataOutput, "warnings", warnings)
                      ELSE metadataOutput
                extractedPageTexts == extractPageTexts(pdfDocument, d.pagesToProcess)
                o2 == IF Len(d.pagesToProcess) = 0 THEN o1
                      ELSE IF t.v.given THEN With(o1, "page_texts", extractedPageTexts)
                      ELSE With(o1, "full_text",
                                JoinText([k \in 1..Len(extractedPageTexts) |->
                                             extractedPageTexts[k].text], "\n\n"))
                extractedImages == extractImages(pdfDocument, d.pagesToProcess)
                o3 == IF options.include_images /\ Len(d.pagesToProcess) > 0
                         /\ Len(extractedImages) > 0
                      THEN With(o2, "images", extractedImages) ELSE o2
            IN Ok(successResult(individualResult, o3))

----------------------------------------------------------------------------
(* Page content extraction: extractPageContent of dist/pdf/extractor.js   *)

\* A batch of pages is bounded by its size: every page beyond the first
\* counts 1, and so does every text item, every operation of the operator
\* list, every attribute of an operation that differs from its default
\* (its Y coordinate excepted), includeImages, and every failing call.
MaxPageCost == 4

\* the value `null`
Null == [t |-> "null"]

\* a vertical coordinate (transform[5]) in half units, so that a value and a
\* half exists, or `undefined`
Coord(h) == [given |-> TRUE, h |-> h]
NoCoord == [given |-> FALSE, h |-> 0]

\* Math.round of a value in half units: a half rounds towards +Infinity
MathRound(h) == (h + 1) \div 2

\* a plausible slip: the run replaces what the line had
setTextLast(textByY, y, str) ==
    IF \E i \in 1..Len(textByY) : textByY[i].y = y
    THEN [i \in 1..Len(textByY) |->
            IF textByY[i].y = y THEN [y |-> y, textParts |-> <<str>>] ELSE textByY[i]]
    ELSE Append(textByY, [y |-> y, textParts |-> <<str>>])

\* textByY.get(y)?.push(str), after textByY.set(y, []) for a new y: a Map
\* keeps its keys in insertion order
setText(textByY, y, str) ==
    IF \E i \in 1..Len(textByY) : textByY[i].y = y
    THEN [i \in 1..Len(textByY) |->
            IF textByY[i].y = y
            THEN [y |-> y, textParts |-> Append(textByY[i].textParts, str)]
            ELSE textByY[i]]
    ELSE Append(textByY, [y |-> y, textParts |-> <<str>>])

\* the loop over textContent.items
RECURSIVE groupTextByY(_, _)
groupTextByY(items, textByY) ==
    IF items = <<>> THEN textByY
    ELSE LET textItem == Head(items)
             yCoord == textItem.transform5
         IN IF ~yCoord.given THEN groupTextByY(Tail(items), textByY)
            ELSE groupTextByY(Tail(items),
                              setText(textByY, MathRound(yCoord.h), textItem.str))

\* textParts.join('')
RECURSIVE JoinEmpty(_)
JoinEmpty(textParts) ==
    IF textParts = <<>> THEN <<>> ELSE Head(textParts) \o JoinEmpty(Tail(textParts))

\* the loop over textByY.entries(): one text item per line that is not blank
RECURSIVE textContentItems(_)
textContentItems(textByY) ==
    IF textByY = <<>> THEN <<>>
    ELSE LET textContent == JoinEmpty(Head(textByY).textParts)
         IN (IF Trim(textContent) # <<>>
             THEN <<[type |-> "text", yPosition |-> Head(textByY).y,
                     textContent |-> textContent]>>
             ELSE <<>>)
            \o textContentItems(Tail(textByY))

\* the operations the scan of fnArray keeps
ImageOps == {"paintImageXObject", "paintXObject"}

\* imageIndices: the positions (from 1) of the image operations of fnArray
RECURSIVE imageIndicesFrom(_, _)
imageIndicesFrom(list, i) ==
    IF i > Len(list) THEN <<>>
    ELSE (IF list[i].fn \in ImageOps THEN <<i>> ELSE <<>>) \o imageIndicesFrom(list, i + 1)

imageIndices(list) == imageIndicesFrom(list, 1)

\* String.prototype.startsWith
startsWith(s, prefix) == Len(s) >= Len(prefix) /\ SubSeq(s, 1, Len(prefix)) = prefix

\* let yPosition = 0, replaced by the rounded transform[5] when the
\* operation carries a transform
yPositionOf(op) == IF op.transform5.given THEN MathRound(op.transform5.h) ELSE 0

\* a value that is no object (a string)
NotObject == [t |-> "string"]

\* processImageData: the image item of a record, or null. !img.data is true
\* of a missing buffer only: a typed array is an object, and an object is
\* truthy also when its length is 0.
processImageData(imageData, yPosition, pageNum, arrayIndex) ==
    IF imageData = Null \/ imageData = NotObject THEN Null
    ELSE IF imageData.data = undefined \/ imageData.width = 0 \/ imageData.height = 0
    THEN Null
    ELSE [type |-> "image", yPosition |-> yPosition,
          imageData |-> [page |-> pageNum, index |-> arrayIndex,
                         width |-> imageData.width, height |-> imageData.height,
                         format |-> IF imageData.kind = 1 THEN "grayscale"
                                    ELSE IF imageData.kind = 3 THEN "rgba" ELSE "rgb",
                         data |-> Payload(pageNum, arrayIndex)]]

\* a promise of imagePromises, with the executor's `resolved` flag, its timer
\* and the callback it handed to page.objs.get
Resolved(imgIndex, v) ==
    [imgIndex |-> imgIndex, state |-> "fulfilled", value |-> v, reason |-> Undef,
     resolved |-> FALSE, timeout |-> "none", callback |-> "none"]
Rejected(imgIndex, e, timeout) ==
    [imgIndex |-> imgIndex, state |-> "rejected", value |-> Null, reason |-> e,
     resolved |-> FALSE, timeout |-> timeout, callback |-> "none"]
\* a lookup under no timer
PendingWithoutTimer(imgIndex) ==
    [imgIndex |-> imgIndex, state |-> "pending", value |-> Null, reason |-> Undef,
     resolved |-> FALSE, timeout |-> "none", callback |-> "registered"]
Pending(imgIndex) ==
    [imgIndex |-> imgIndex, state |-> "pending", value |-> Null, reason |-> Undef,
     resolved |-> FALSE, timeout |-> "armed", callback |-> "registered"]

\* the executor of one image promise, up to its return: the shared table for
\* a name that starts with g_, then the synchronous lookup, then the callback
\* lookup under a timer. An exception that leaves the executor rejects the
\* promise.
imageExecutor(op, imgIndex, pageNum, arrayIndex) ==
    LET yPosition == yPositionOf(op)
        item == processImageData(op.rec, yPosition, pageNum, arrayIndex)
    IN IF ~op.hasArgs THEN Resolved(imgIndex, Null)
       ELSE IF ~op.imageName.isString
       THEN Rejected(imgIndex, Error(<<"imageName.startsWith is not a function">>), "none")
       ELSE IF startsWith(op.imageName.chars, <<"g", "_">>) /\ op.common = "value"
               /\ op.rec # Null
       THEN Resolved(imgIndex, item)
       ELSE IF op.sync = "value" THEN Resolved(imgIndex, item)
       ELSE IF op.async = "throws"
       THEN Rejected(imgIndex, Error(<<"objs.get failed">>), "armed")
       ELSE Pending(imgIndex)

\* a plausible slip: the callback lookup started next to the synchronous one
tableCallsEager(op) ==
    IF ~op.hasArgs \/ ~op.imageName.isString THEN <<>>
    ELSE LET shared == IF startsWith(op.imageName.chars, <<"g", "_">>)
                       THEN <<"commonObjs.get">> ELSE <<>>
         IN IF shared # <<>> /\ op.common = "value" /\ op.rec # Null THEN shared
            ELSE shared \o <<"objs.get", "setTimeout", "objs.get callback">>

\* the calls the executor makes for one image, in the order it makes them:
\* page.commonObjs.get(imageName), page.objs.get(imageName), setTimeout and
\* page.objs.get(imageName, callback)
tableCalls(op) ==
    IF ~op.hasArgs \/ ~op.imageName.isString THEN <<>>
    ELSE LET shared == IF startsWith(op.imageName.chars, <<"g", "_">>)
                       THEN <<"commonObjs.get">> ELSE <<>>
         IN IF shared # <<>> /\ op.common = "value" /\ op.rec # Null THEN shared
            ELSE IF op.sync = "value" THEN shared \o <<"objs.get">>
            ELSE shared \o <<"objs.get", "setTimeout", "objs.get callback">>

\* the calls of the executors of a page, image by image
tableCallsOf(list) ==
    LET idx == imageIndices(list)
    IN [k \in 1..Len(idx) |-> tableCalls(list[idx[k]])]

\* imageIndices.map((imgIndex, arrayIndex) => new Promise(...))
imagePromises(list, pageNum) ==
    LET idx == imageIndices(list)
    IN [k \in 1..Len(idx) |-> imageExecutor(list[idx[k]], idx[k], pageNum, k - 1)]

\* resolvedImages.filter((item) => item !== null)
RECURSIVE notNull(_)
notNull(items) ==
    IF items = <<>> THEN <<>>
    ELSE (IF Head(items) = Null THEN <<>> ELSE <<Head(items)>>) \o notNull(Tail(items))

\* a plausible slip: the comparison the other way round
compareFnAscending(a, b) == a.yPosition - b.yPosition

\* (a, b) => b.yPosition - a.yPosition
compareFn(a, b) == b.yPosition - a.yPosition

\* Array.prototype.sort is stable: an item goes before the first item it does
\* not have to follow
RECURSIVE insertSorted(_, _)
insertSorted(x, s) ==
    IF s = <<>> THEN <<x>>
    ELSE IF compareFn(x, Head(s)) <= 0 THEN <<x>> \o s
    ELSE <<Head(s)>> \o insertSorted(x, Tail(s))

RECURSIVE sort(_)
sort(items) == IF items = <<>> THEN <<>> ELSE insertSorted(Head(items), sort(Tail(items)))

\* the text item a page degrades to
errorItem(error) ==
    [type |-> "text", yPosition |-> 0,
     textContent |-> <<"Error processing page: ">> \o MessageOf(error)]

\* a plausible slip: no catch around the body
pageOutcomeUncaught(body) == IF body.ok THEN Ok(sort(body.v)) ELSE body

\* the try/catch around the body of extractPageContent and the sort of what
\* the body collected
pageOutcome(body) == IF body.ok THEN Ok(sort(body.v)) ELSE Ok(<<errorItem(body.err)>>)

\* what the engine throws for a page
getPageError(w, pageNum) ==
    IF w.getPage = "throwObject" THEN [cls |-> "object", json |-> <<"{custom}">>]
    ELSE Error(<<"Failed to get page ", ToString(pageNum)>>)
getTextContentError == Error(<<"Failed to get text content">>)
getOperatorListError == Error(<<"Failed to get operator list">>)

Pages == DOMAIN pageWorld

\* an extractPageContent call that has not run yet: contentItems = []
NewCall ==
    [pc |-> "getPage", contentItems |-> <<>>, promises |-> <<>>, lookups |-> <<>>,
     outcome |-> "pending", value |-> <<>>, reason |-> Undef]

\* the call settles: it returns its items, or it rejects
Return(p, body) ==
    LET out == pageOutcome(body)
    IN pg' = [pg EXCEPT ![p].pc = "done",
                        ![p].outcome = IF out.ok THEN "fulfilled" ELSE "rejected",
                        ![p].value = IF out.ok THEN out.v ELSE <<>>,
                        ![p].reason = IF out.ok THEN Undef ELSE out.err]

\* await pdfDocument.getPage(pageNum)
GetPage(p) ==
    /\ pg[p].pc = "getPage"
    /\ IF pageWorld[p].getPage # "ok"
       THEN Return(p, Throw(getPageError(pageWorld[p], p)))
       ELSE pg' = [pg EXCEPT ![p].pc = "getTextContent"]
    /\ UNCHANGED <<pageWorld, hvars, uvars>>

\* await page.getTextContent(), the grouping of the text by line and, when no
\* images are asked for, the return
GetTextContent(p) ==
    /\ pg[p].pc = "getTextContent"
    /\ IF pageWorld[p].text.fail
       THEN Return(p, Throw(getTextContentError))
       ELSE LET contentItems == textContentItems(groupTextByY(pageWorld[p].text.items, <<>>))
            IN IF pageWorld[p].includeImages
               THEN pg' = [pg EXCEPT ![p].pc = "getOperatorList",
                                     ![p].contentItems = contentItems]
               ELSE Return(p, Ok(contentItems))
    /\ UNCHANGED <<pageWorld, hvars, uvars>>

\* await page.getOperatorList(), the scan for image operations and the
\* executors of the image promises, which run to their end one after the other
GetOperatorList(p) ==
    /\ pg[p].pc = "getOperatorList"
    /\ IF pageWorld[p].ops.fail
       THEN Return(p, Throw(getOperatorListError))
       ELSE pg' = [pg EXCEPT ![p].pc = "awaitImages",
                             ![p].promises = imagePromises(pageWorld[p].ops.list, p),
                             ![p].lookups = tableCallsOf(pageWorld[p].ops.list)]
    /\ UNCHANGED <<pageWorld, hvars, uvars>>

\* the operation an image promise was made for
OpOf(p, k) == pageWorld[p].ops.list[pg[p].promises[k].imgIndex]

\* a plausible slip: a callback that does not look at the `resolved` flag
CallbackUnguarded(p, k) ==
    LET pr == pg[p].promises[k]
        op == OpOf(p, k)
    IN /\ pr.callback = "registered"
       /\ \/ op.async = "early"
          \/ op.async = "late" /\ pr.timeout = "fired"
       /\ pg' = [pg EXCEPT ![p].promises[k] =
                    [pr EXCEPT !.resolved = TRUE,
                               !.timeout = IF @ = "fired" THEN @ ELSE "cleared",
                               !.callback = "called", !.state = "fulfilled",
                               !.value = processImageData(op.rec, yPositionOf(op), p, k - 1)]]
       /\ UNCHANGED <<pageWorld, hvars, uvars>>

\* the object table calls the callback of image k of page p: sooner than the
\* timer for an image that loads in time, after it for one that loads late
Callback(p, k) ==
    LET pr == pg[p].promises[k]
        op == OpOf(p, k)
    IN /\ pr.callback = "registered"
       /\ \/ op.async = "early"
          \/ op.async = "late" /\ pr.timeout = "fired"
       /\ pg' = [pg EXCEPT ![p].promises[k] =
                    IF ~pr.resolved
                    THEN [pr EXCEPT !.resolved = TRUE, !.timeout = "cleared",
                                    !.callback = "called", !.state = "fulfilled",
                                    !.value = processImageData(op.rec, yPositionOf(op), p, k - 1)]
                    ELSE [pr EXCEPT !.callback = "called"]]
       /\ UNCHANGED <<pageWorld, hvars, uvars>>

\* the 10 second timer of image k of page p fires: resolve(null) settles a
\* promise that is still pending and does nothing to a settled one
Timeout(p, k) ==
    LET pr == pg[p].promises[k]
        op == OpOf(p, k)
    IN /\ pr.timeout = "armed"
       /\ pr.callback = "registered" => op.async \in {"late", "never"}
       /\ pg' = [pg EXCEPT ![p].promises[k] =
                    IF ~pr.resolved
                    THEN [pr EXCEPT !.resolved = TRUE, !.timeout = "fired",
                                    !.state = IF pr.state = "pending" THEN "fulfilled" ELSE @]
                    ELSE [pr EXCEPT !.timeout = "fired"]]
       /\ UNCHANGED <<pageWorld, hvars, uvars>>

\* Promise.all(imagePromises): rejected as soon as one promise is rejected
\* (the executors run in order, so the first rejected one), fulfilled when all
\* are fulfilled
promiseAll(promises) ==
    IF \E k \in 1..Len(promises) : promises[k].state = "rejected"
    THEN LET k == CHOOSE i \in 1..Len(promises) :
                     /\ promises[i].state = "rejected"
                     /\ \A j \in 1..(i - 1) : promises[j].state # "rejected"
         IN Throw(promises[k].reason)
    ELSE Ok([k \in 1..Len(promises) |-> promises[k].value])

\* a plausible slip: the promises are not awaited, an image that has not
\* resolved yet counts as absent
ResumeWithoutAwait(p) ==
    /\ pg[p].pc = "awaitImages"
    /\ LET resolvedImages == promiseAll(pg[p].promises)
       IN IF resolvedImages.ok
          THEN Return(p, Ok(pg[p].contentItems \o notNull(resolvedImages.v)))
          ELSE Return(p, resolvedImages)
    /\ UNCHANGED <<pageWorld, hvars, uvars>>

\* the continuation of await Promise.all(imagePromises) up to the return
Resume(p) ==
    /\ pg[p].pc = "awaitImages"
    /\ \/ \E k \in 1..Len(pg[p].promises) : pg[p].promises[k].state = "rejected"
       \/ \A k \in 1..Len(pg[p].promises) : pg[p].promises[k].state = "fulfilled"
    /\ LET resolvedImages == promiseAll(pg[p].promises)
       IN IF resolvedImages.ok
          THEN Return(p, Ok(pg[p].contentItems \o notNull(resolvedImages.v)))
          ELSE Return(p, resolvedImages)
    /\ UNCHANGED <<pageWorld, hvars, uvars>>

\* extractPageContent as one function of the page's resources, every callback
\* and timer having fired
extractPageContent(w, pageNum) ==
    IF w.getPage # "ok" THEN pageOutcome(Throw(getPageError(w, pageNum)))
    ELSE IF w.text.fail THEN pageOutcome(Throw(getTextContentError))
    ELSE LET contentItems == textContentItems(groupTextByY(w.text.items, <<>>))
         IN IF ~w.includeImages THEN pageOutcome(Ok(contentItems))
            ELSE IF w.ops.fail THEN pageOutcome(Throw(getOperatorListError))
            ELSE LET started == imagePromises(w.ops.list, pageNum)
                     settledPromises ==
                        [k \in 1..Len(started) |->
                           LET op == w.ops.list[started[k].imgIndex]
                           IN IF started[k].state # "pending" THEN started[k]
                              ELSE Resolved(started[k].imgIndex,
                                     IF op.async = "early"
                                     THEN processImageData(op.rec, yPositionOf(op),
                                                           pageNum, k - 1)
                                     ELSE Null)]
                     resolvedImages == promiseAll(settledPromises)
                 IN IF resolvedImages.ok
                    THEN pageOutcome(Ok(contentItems \o notNull(resolvedImages.v)))
                    ELSE pageOutcome(resolvedImages)

----------------------------------------------------------------------------
(* The pages extractPageContent is run on *)

\* text items of two lines, Y = 200 and Y = 199.5 rounding to the same line
\* and Y = 50 being another one, a blank one, and one without a Y
TextChoices ==
    {[str |-> <<"a">>, transform5 |-> Coord(400)],
     [str |-> <<"b">>, transform5 |-> Coord(399)],
     [str |-> <<"b">>, transform5 |-> Coord(100)],
     [str |-> <<" ">>, transform5 |-> Coord(100)],
     [str |-> <<"a">>, transform5 |-> NoCoord]}

TextCost(textItem) == IF textItem.transform5.given THEN 1 ELSE 2

\* the sequences of text items of size at most b
RECURSIVE TextSeqs(_)
TextSeqs(b) ==
    {<<>>} \cup
    UNION {{<<it>> \o rest : it \in {x \in TextChoices : TextCost(x) = c},
                             rest \in TextSeqs(b - c)} : c \in 1..b}

RECURSIVE TextSeqCost(_)
TextSeqCost(items) ==
    IF items = <<>> THEN 0 ELSE TextCost(Head(items)) + TextSeqCost(Tail(items))

\* image records: the three kinds, a record without data, one with an empty
\* buffer, one without width, one without height, a string, and null
ImageRecord(kind) == [data |-> "bytes", width |-> 2, height |-> 1, kind |-> kind]
ImageRecords ==
    {ImageRecord(1), ImageRecord(2), ImageRecord(3),
     [ImageRecord(2) EXCEPT !.data = undefined],
     [ImageRecord(2) EXCEPT !.data = "empty"],
     NotObject,
     [ImageRecord(2) EXCEPT !.width = 0],
     [ImageRecord(2) EXCEPT !.height = 0],
     Null}

PlainName == [isString |-> TRUE, chars |-> <<"i", "m", "g">>]
SharedName == [isString |-> TRUE, chars |-> <<"g", "_", "1">>]
NoStringName == [isString |-> FALSE, chars |-> <<>>]

\* image Y: none (0), 149.5 (rounds to 150), 200 (the Y of a text line)
ImageCoords == {NoCoord, Coord(299), Coord(400)}

\* an operation of the operator list with what the object tables do for it:
\*   common, sync: the lookup returns rec ("value"), returns undefined, or throws
\*   async: the callback gets rec before the timer ("early"), after it
\*          ("late") or never, or the lookup itself throws
DefaultOp ==
    [fn |-> "paintImageXObject", hasArgs |-> TRUE, imageName |-> PlainName,
     transform5 |-> NoCoord, common |-> "undefined", sync |-> "value",
     async |-> "early", rec |-> ImageRecord(2)]

OpCost(op) ==
    1 + (IF op.fn # DefaultOp.fn THEN 1 ELSE 0)
      + (IF op.hasArgs THEN 0 ELSE 1)
      + (IF op.imageName # DefaultOp.imageName THEN 1 ELSE 0)
      + (IF op.common # DefaultOp.common THEN 1 ELSE 0)
      + (IF op.sync # DefaultOp.sync THEN 1 ELSE 0)
      + (IF op.async # DefaultOp.async THEN 1 ELSE 0)
      + (IF op.rec # DefaultOp.rec THEN 1 ELSE 0)

\* the tiers the executor of an operation gets to
ReachesCommon(op) ==
    op.hasArgs /\ op.imageName.isString /\ startsWith(op.imageName.chars, <<"g", "_">>)
CommonResolves(op) == ReachesCommon(op) /\ op.common = "value" /\ op.rec # Null
ReachesSync(op) == op.hasArgs /\ op.imageName.isString /\ ~CommonResolves(op)
SyncResolves(op) == ReachesSync(op) /\ op.sync = "value"
ReachesAsync(op) == ReachesSync(op) /\ ~SyncResolves(op)

\* what the executor never reads is left at its default
Observable(op) ==
    /\ op.fn \notin ImageOps =>
          [op EXCEPT !.fn = DefaultOp.fn] = DefaultOp
    /\ (~op.hasArgs \/ ~op.imageName.isString) =>
          /\ op.transform5 = DefaultOp.transform5
          /\ op.rec = DefaultOp.rec
    /\ ~ReachesCommon(op) => op.common = DefaultOp.common
    /\ ~ReachesSync(op) => op.sync = DefaultOp.sync
    /\ ~ReachesAsync(op) => op.async = DefaultOp.async
    /\ ~(\/ ReachesCommon(op) /\ op.common = "value"
         \/ SyncResolves(op)
         \/ ReachesAsync(op) /\ op.async = "early") => op.rec = DefaultOp.rec

AllOps ==
    {o : o \in {op \in [fn : ImageOps \cup {"other"}, hasArgs : BOOLEAN,
             imageName : {PlainName, SharedName, NoStringName},
             transform5 : ImageCoords,
             common : {"value", "undefined", "throw"},
             sync : {"value", "undefined", "throw"},
             async : {"early", "late", "never", "throws"},
             rec : ImageRecords] :
        Observable(op) /\ OpCost(op) <= MaxPageCost + 1}}

\* the operator lists of size at most b made of the operations ops
RECURSIVE OpSeqs(_, _)
OpSeqs(ops, b) ==
    {<<>>} \cup
    UNION {{<<op>> \o rest : op \in {x \in ops : OpCost(x) = c},
                             rest \in OpSeqs(ops, b - c)} : c \in 1..b}

RECURSIVE OpSeqCost(_)
OpSeqCost(list) == IF list = <<>> THEN 0 ELSE OpCost(Head(list)) + OpSeqCost(Tail(list))

NoText == [fail |-> FALSE, items |-> <<>>]
NoOps == [fail |-> FALSE, list |-> <<>>]

\* the resources of one page and the includeImages argument of its call
PageWorlds(ops, b) ==
    (IF b < 1 THEN {}
     ELSE {[getPage |-> g, text |-> NoText, includeImages |-> FALSE, ops |-> NoOps] :
              g \in {"throwError", "throwObject"}}
          \cup {[getPage |-> "ok", text |-> [fail |-> TRUE, items |-> <<>>],
                 includeImages |-> FALSE, ops |-> NoOps]})
    \cup {[getPage |-> "ok", text |-> [fail |-> FALSE, items |-> t],
           includeImages |-> FALSE, ops |-> NoOps] : t \in TextSeqs(b)}
    \cup UNION {{[getPage |-> "ok", text |-> [fail |-> FALSE, items |-> t],
                  includeImages |-> TRUE, ops |-> [fail |-> FALSE, list |-> o]] :
                    t \in {x \in TextSeqs(c) : TextSeqCost(x) = c},
                    o \in OpSeqs(ops, b - 1 - c)} : c \in 0..(b - 1)}
    \cup (IF b < 2 THEN {}
          ELSE {[getPage |-> "ok", text |-> [fail |-> FALSE, items |-> t],
                 includeImages |-> TRUE, ops |-> [fail |-> TRUE, list |-> <<>>]] :
                   t \in TextSeqs(b - 2)})

PageCost(w) ==
    (IF w.getPage # "ok" THEN 1 ELSE 0) + (IF w.text.fail THEN 1 ELSE 0)
    + TextSeqCost(w.text.items) + (IF w.includeImages THEN 1 ELSE 0)
    + (IF w.ops.fail THEN 1 ELSE 0) + OpSeqCost(w.ops.list)

\* the batches of pages: the calls of one batch run concurrently
RECURSIVE PageBatches(_, _)
PageBatches(ops, b) ==
    {<<>>} \cup
    UNION {{<<w>> \o rest : w \in {x \in PageWorlds(ops, c) : PageCost(x) = c},
                            rest \in PageBatches(ops, b - 1 - c)} : c \in 0..(b - 1)}

\* no request is being handled
HandlerIdle ==
    /\ args = NoBatch /\ world = NoBatch /\ task = NoBatch
    /\ phase = "idle" /\ rejection = Undef
    /\ settled = <<>> /\ content = <<>> /\ calls = {}

InitPage ==
    /\ pageWorld \in PageBatches(AllOps, MaxPageCost + 1) \ {<<>>}
    /\ pg = [p \in DOMAIN pageWorld |-> NewCall]
    /\ HandlerIdle
    /\ ParserIdle
    /\ PixelsIdle
    /\ RunsIdle

NextPage ==
    \/ \E p \in Pages : GetPage(p)
    \/ \E p \in Pages : GetTextContent(p)
    \/ \E p \in Pages : GetOperatorList(p)
    \/ \E p \in Pages : \E k \in 1..Len(pg[p].promises) : Callback(p, k)
    \/ \E p \in Pages : \E k \in 1..Len(pg[p].promises) : Timeout(p, k)
    \/ \E p \in Pages : Resume(p)

SpecPage == InitPage /\ [][NextPage]_vars

----------------------------------------------------------------------------
(* The page range resolver applied to one selector                         *)

InitParser ==
    /\ parser \in [sel : Selectors, parsed : {NotRun}, target : {NotRun}, split : {NotRun}]
    /\ HandlerIdle
    /\ InitPageIdle
    /\ PixelsIdle
    /\ RunsIdle

ParsePageRanges ==
    /\ parser.sel.t = "str"
    /\ ~parser.parsed.run
    /\ parser' = [parser EXCEPT !.parsed = Ran(parsePageRanges(parser.sel.v))]
    /\ UNCHANGED <<hvars, pvars, pixels, textRun, imageRun>>

GetTargetPages ==
    /\ ~parser.target.run
    /\ \E sourceDescription \in SourceDescriptions :
          parser' = [parser EXCEPT !.target =
                        Ran([source |-> sourceDescription,
                             out |-> getTargetPages(parser.sel, sourceDescription)])]
    /\ UNCHANGED <<hvars, pvars, pixels, textRun, imageRun>>

\* the handler hands getTargetPages' result on with the page count of the
\* document and include_full_text
DeterminePagesToProcess ==
    /\ parser.target.run
    /\ parser.target.r.out.ok
    /\ ~parser.split.run
    /\ \E totalPages \in 1..MaxTotalPages : \E includeFullText \in BOOLEAN :
          parser' = [parser EXCEPT !.split =
                        Ran([totalPages |-> totalPages, includeFullText |-> includeFullText,
                             out |-> determinePagesToProcess(parser.target.r.out.v,
                                                             totalPages, includeFullText)])]
    /\ UNCHANGED <<hvars, pvars, pixels, textRun, imageRun>>

NextParser == ParsePageRanges \/ GetTargetPages \/ DeterminePagesToProcess

SpecParser == InitParser /\ [][NextParser]_vars

----------------------------------------------------------------------------
(* The pixel decoder applied to one raw image record                       *)

InitPixels ==
    /\ pixels \in [img : RawImageRecords, out : {NotRun}]
    /\ HandlerIdle
    /\ InitPageIdle
    /\ ParserIdle
    /\ RunsIdle

\* processImageData on a record that has data, width and height
EncodePixelsToPNG ==
    /\ ~pixels.out.run
    /\ LET img == pixels.img
       IN pixels' = [pixels EXCEPT !.out =
                        Ran([format |-> formatOf(img.kind),
                             data |-> encodePixelsToPNG(img.data, img.width, img.height,
                                                        channelsOf(img.kind))])]
    /\ UNCHANGED <<hvars, pvars, parser, textRun, imageRun>>

NextPixels == EncodePixelsToPNG

SpecPixels == InitPixels /\ [][NextPixels]_vars

----------------------------------------------------------------------------
(* extractPageTexts of pdf/extractor.ts, one per-page call after the other  *)

\* the documents have at most MaxTextPages pages and a call asks for at most
\* MaxTextPages pages, of which one may lie beyond the document
MaxTextPages == 2

\* what the engine does for a page: it delivers the page and its text,
\* getPage rejects, or getTextContent rejects
TextOutcomes == {"ok", "getPageFails", "getTextContentFails"}

\* a document: the outcome of each of its pages
TextDocs == UNION {[1..n -> TextOutcomes] : n \in 1..MaxTextPages}

\* the lists of requested pages, in any order and with repetitions
RequestedLists == UNION {[1..m -> 1..(MaxTextPages + 1)] : m \in 0..MaxTextPages}

\* pdfDocument.getPage(pageNum)
getPage(doc, pageNum) ==
    IF pageNum \notin DOMAIN doc THEN Throw(Error(<<"Invalid page request.">>))
    ELSE IF doc[pageNum] = "getPageFails"
    THEN Throw(Error(<<"Failed to get page ", ToString(pageNum)>>))
    ELSE Ok(pageNum)

\* page.getTextContent() and the join of the strings of its items
getPageText(doc, pageNum) ==
    IF doc[pageNum] = "getTextContentFails"
    THEN Throw(Error(<<"Failed to get text of page ", ToString(pageNum)>>))
    ELSE Ok(<<"text of page ", ToString(pageNum)>>)

\* the entry of the catch block of extractSinglePageText
errorEntry(pageNum, pageError) ==
    [page |-> pageNum, text |-> <<"Error processing page: ">> \o MessageOf(pageError)]

\* an extractSinglePageText call that has not run yet
NewTextCall == [pc |-> "getPage", value |-> Undef]

InitTexts ==
    /\ \E doc \in TextDocs : \E list \in RequestedLists :
          textRun = [doc |-> doc, pagesToProcess |-> list,
                     perPage |-> [k \in 1..Len(list) |-> NewTextCall],
                     completed |-> <<>>, out |-> NotRun]
    /\ imageRun = NoRun
    /\ HandlerIdle
    /\ InitPageIdle
    /\ ParserIdle
    /\ PixelsIdle

\* the k-th call returns its entry
TextCallReturns(k, entry) ==
    textRun' = [textRun EXCEPT !.perPage[k] = [pc |-> "done", value |-> entry],
                               !.completed = Append(@, k)]

\* await pdfDocument.getPage(pageNum) of the k-th call
TextGetPage(k) ==
    /\ textRun.perPage[k].pc = "getPage"
    /\ LET pageNum == textRun.pagesToProcess[k]
           page == getPage(textRun.doc, pageNum)
       IN IF page.ok
          THEN textRun' = [textRun EXCEPT !.perPage[k].pc = "getTextContent"]
          ELSE TextCallReturns(k, errorEntry(pageNum, page.err))
    /\ UNCHANGED <<hvars, pvars, parser, pixels, imageRun>>

\* await page.getTextContent() of the k-th call, up to its return
TextGetTextContent(k) ==
    /\ textRun.perPage[k].pc = "getTextContent"
    /\ LET pageNum == textRun.pagesToProcess[k]
           pageText == getPageText(textRun.doc, pageNum)
       IN IF pageText.ok
          THEN TextCallReturns(k, [page |-> pageNum, text |-> pageText.v])
          ELSE TextCallReturns(k, errorEntry(pageNum, pageText.err))
    /\ UNCHANGED <<hvars, pvars, parser, pixels, imageRun>>

\* a plausible slip: the entries as Promise.all delivers them
entriesUnsorted(perPage) == [k \in 1..Len(perPage) |-> perPage[k].value]

\* the value of Promise.all, one entry per call by position, sorted by page
entriesSorted(perPage) == SortByPage([k \in 1..Len(perPage) |-> perPage[k].value])

\* the continuation of await Promise.all(...) up to the return
TextsReturn ==
    /\ ~textRun.out.run
    /\ \A k \in 1..Len(textRun.perPage) : textRun.perPage[k].pc = "done"
    /\ textRun' = [textRun EXCEPT !.out = Ran(entriesSorted(textRun.perPage))]
    /\ UNCHANGED <<hvars, pvars, parser, pixels, imageRun>>

NextTexts ==
    \/ \E k \in 1..Len(textRun.perPage) : TextGetPage(k)
    \/ \E k \in 1..Len(textRun.perPage) : TextGetTextContent(k)
    \/ TextsReturn

SpecTexts == InitTexts /\ [][NextTexts]_vars

----------------------------------------------------------------------------
(* extractImages of pdf/extractor.ts applied to one document                *)

\* the lists of pages of a document without repetitions, in any order
PageLists(n) ==
    {list \in UNION {[1..m -> 1..n] : m \in 0..n} :
        \A i, j \in 1..Len(list) : list[i] = list[j] => i = j}

InitImages ==
    /\ \E doc \in {d \in Docs(MaxCost - 1) : d.metaOk} : \E list \in PageLists(doc.numPages) :
          imageRun = [doc |-> doc, pagesToProcess |-> list, out |-> NotRun]
    /\ textRun = NoRun
    /\ HandlerIdle
    /\ InitPageIdle
    /\ ParserIdle
    /\ PixelsIdle

ExtractImages ==
    /\ ~imageRun.out.run
    /\ imageRun' = [imageRun EXCEPT
                       !.out = Ran(extractImages(imageRun.doc, imageRun.pagesToProcess))]
    /\ UNCHANGED <<hvars, pvars, parser, pixels, textRun>>

NextImages == ExtractImages

SpecImages == InitImages /\ [][NextImages]_vars

----------------------------------------------------------------------------
(* Properties *)

Responded == phase = "responded"
Summary == content[1].text.results
N == Len(args.sources)
DataOf(r) == IF Has(r, "data") THEN r.data ELSE Undef

\* C1: whatever the order in which the per-source calls complete, the summary
\* of a response has one entry per source of the request, and entry i carries
\* the path or URL of source i.
C1_ResultsInRequestOrder ==
    Responded =>
        /\ Len(Summary) = N
        /\ \A i \in 1..N : Summary[i].source = sourceDescriptionOf(args.sources[i])

\* two sources with different identities, the second completing first
C1_Witness ==
    /\ Responded
    /\ N = 2
    /\ args.sources[1].path # args.sources[2].path
    /\ settled = <<2, 1>>

\* a source fails when its selector or its load throws
SourceFails(i) ==
    \/ ~getTargetPages(args.sources[i].pages, sourceDescriptionOf(args.sources[i])).ok
    \/ ~loadPdfDocument(args.sources[i], sourceDescriptionOf(args.sources[i]), world[i]).ok

Finished == phase \in {"responded", "rejected"}

\* C2: when a source of a valid request fails, whatever it throws, the request
\* is answered, the failing source's entry has success = false and an error
\* string, and every other source's entry is the one it gets when it is the
\* only source of the request.
C2_FailureIsolation ==
    (Finished /\ readPdfArgsSchema(args) /\ N >= 2 /\ \E i \in 1..N : SourceFails(i)) =>
        /\ Responded
        /\ \A i \in 1..N :
              LET alone == processSingleSource(args.sources[i], world[i], args)
              IN /\ alone.ok
                 /\ Summary[i] = Stringify(resultForJson(alone.v))
                 /\ SourceFails(i) => ~Summary[i].success /\ Has(Summary[i], "error")

\* C3: once the arguments have passed validation the handler never rejects.
C3_NeverRejects == readPdfArgsSchema(args) => phase # "rejected"

\* the malformed requests the claim lists: a wrong type, no sources, a source
\* with both or neither of path and url, a page string with a character that
\* is no digit, comma, hyphen or white space, a page array element below 1
Malformed ==
    \/ args.kind # "object"
    \/ Len(args.sources) = 0
    \/ \E i \in 1..Len(args.sources) :
          LET src == args.sources[i]
          IN \/ (src.path # undefined) = (src.url # undefined)
             \/ /\ src.pages.t = "str"
                /\ \E k \in 1..Len(src.pages.v) : src.pages.v[k] \notin PageChars \cup {" "}
             \/ /\ src.pages.t = "arr"
                /\ \E k \in 1..Len(src.pages.v) : src.pages.v[k] < 1

\* C4: a malformed request is rejected with InvalidParams and none of its
\* sources is processed: no selector is resolved, no document is loaded.
C4_InvalidArgsProcessNothing ==
    Malformed =>
        /\ calls = {}
        /\ \A i \in DOMAIN task : task[i].pc = "idle"
        /\ phase \in {"called", "rejected"}
        /\ phase = "rejected" =>
              rejection.cls = "McpError" /\ rejection.code = "InvalidParams"

\* a rejected request of two sources of which one is well formed
C4_Witness ==
    /\ phase = "rejected"
    /\ Len(args.sources) = 2
    /\ Malformed
    /\ \E i \in 1..2 : pdfSourceSchema(args.sources[i])

\* C5: every source result is final in one of two shapes: success with data
\* and no error, or failure with an error and no data.
C5_FinalShapes ==
    \A i \in DOMAIN task :
        task[i].outcome = "fulfilled" =>
            LET r == task[i].result
            IN \/ r.success /\ DataOf(r) # Undef /\ ~Has(r, "error")
               \/ ~r.success /\ DataOf(r) = Undef /\ Has(r, "error")

\* a response with a successful and a failed source
C5_Witness ==
    /\ Responded
    /\ \E i, j \in 1..N : Summary[i].success /\ ~Summary[j].success

PageDone(p) == pg[p].pc = "done"

\* the item a failed page is replaced by
IsErrorItem(item) ==
    item.type = "text" /\ startsWith(item.textContent, <<"Error processing page: ">>)
IsErrorResult(items) == Len(items) = 1 /\ IsErrorItem(items[1])

\* an exception leaves the executor of an image: its name is no string, or the
\* callback lookup itself throws
ExecutorThrows(op) ==
    /\ op.fn \in ImageOps
    /\ op.hasArgs
    /\ ~op.imageName.isString \/ (ReachesAsync(op) /\ op.async = "throws")

\* the extraction of a page fails: one of the three page calls throws, or an
\* exception leaves the executor of one of its images
PageFails(w) ==
    \/ w.getPage # "ok"
    \/ w.text.fail
    \/ w.includeImages /\ w.ops.fail
    \/ w.includeImages /\ \E i \in 1..Len(w.ops.list) : ExecutorThrows(w.ops.list[i])

\* C6: on every page whose extraction succeeds the returned items are in
\* non-increasing order of yPosition, and they are the text lines and the
\* resolved images of the page, merged in one sequence.
C6_SortedByY ==
    \A p \in Pages :
        (PageDone(p) /\ ~PageFails(pageWorld[p])) =>
            LET items == pg[p].value
                lines == textContentItems(groupTextByY(pageWorld[p].text.items, <<>>))
                images == notNull([k \in 1..Len(pg[p].promises) |-> pg[p].promises[k].value])
            IN /\ pg[p].outcome = "fulfilled"
               /\ \A i, j \in 1..Len(items) :
                     i < j => items[i].yPosition >= items[j].yPosition
               /\ Len(items) = Len(lines) + Len(images)
               /\ \A k \in 1..Len(lines) : \E i \in 1..Len(items) : items[i] = lines[k]
               /\ \A k \in 1..Len(images) : \E i \in 1..Len(items) : items[i] = images[k]

\* text at Y = 200 and Y = 50 and an image at Y = 150 came back as
\* [text@200, image@150, text@50]
C6_Witness ==
    \E p \in Pages :
        /\ PageDone(p)
        /\ Len(pg[p].value) = 3
        /\ [i \in 1..3 |-> pg[p].value[i].type] = <<"text", "image", "text">>
        /\ [i \in 1..3 |-> pg[p].value[i].yPosition] = <<200, 150, 50>>

\* The layout of the pages of the documents above: the text line of a page
\* lies at Y = 100 and the k-th image at Y = 150 - 100 * k, so that image 0
\* is above the text and the later images follow below it, top to bottom.
RECURSIVE imageKeysFrom(_, _, _)
imageKeysFrom(ops, pageNum, k) ==
    IF k >= Len(ops) THEN <<>>
    ELSE (IF ops[k + 1] = "absent" THEN <<>> ELSE << <<"image", Payload(pageNum, k)>> >>)
         \o imageKeysFrom(ops, pageNum, k + 1)

ExpectedPageStream(doc, pageNum) ==
    IF pageNum = doc.failPage
    THEN << <<"text", <<"Error processing page: ", "getPage failed">> >> >>
    ELSE LET ops == doc.imgs[pageNum]
         IN (IF Len(ops) >= 1 THEN imageKeysFrom(SubSeq(ops, 1, 1), pageNum, 0) ELSE <<>>)
            \o << <<"text", <<"text of page ", ToString(pageNum)>> >> >>
            \o imageKeysFrom(ops, pageNum, 1)

RECURSIVE ExpectedPagesStream(_, _)
ExpectedPagesStream(doc, pages) ==
    IF pages = <<>> THEN <<>>
    ELSE ExpectedPageStream(doc, Head(pages)) \o ExpectedPagesStream(doc, Tail(pages))

PagesProcessed(i) ==
    determinePagesToProcess(
        getTargetPages(args.sources[i].pages, sourceDescriptionOf(args.sources[i])).v,
        world[i].doc.numPages, args.include_full_text).pagesToProcess

RECURSIVE ExpectedStreamFrom(_)
ExpectedStreamFrom(i) ==
    IF i > N THEN <<>>
    ELSE (IF SourceFails(i) THEN <<>> ELSE ExpectedPagesStream(world[i].doc, PagesProcessed(i)))
         \o ExpectedStreamFrom(i + 1)

PartKey(part) ==
    IF part.type = "text" THEN <<"text", part.text>> ELSE <<"image", part.data>>

\* C7: with include_images the parts after the summary are the stream of text
\* and image parts: sources in request order, pages in page order, and within
\* a page text and images by Y position, top first.
C7_OrderedStream ==
    (Responded /\ args.include_images) =>
        [k \in 1..(Len(content) - 1) |-> PartKey(content[k + 1])] = ExpectedStreamFrom(1)

C9_AllImagePartsPng ==
    Responded =>
        \A k \in 1..Len(content) :
            content[k].type = "image" => content[k].mimeType = "image/png"

\* a step of the handling of an image throws: its executor throws, or one of
\* the lookups it makes in the shared or in the private table throws
ImageStepThrows(op) ==
    /\ op.fn \in ImageOps
    /\ \/ ExecutorThrows(op)
       \/ ReachesCommon(op) /\ op.common = "throw"
       \/ ReachesSync(op) /\ op.sync = "throw"

AnyStepFails(w) ==
    \/ PageFails(w)
    \/ w.getPage = "ok" /\ ~w.text.fail /\ w.includeImages /\ ~w.ops.fail
       /\ \E i \in 1..Len(w.ops.list) : ImageStepThrows(w.ops.list[i])

\* C10 as stated: extractPageContent never rejects, and when getPage,
\* getTextContent, getOperatorList or any step of image handling fails the
\* call resolves with exactly one item, the text 'Error processing page:
\* <message>'; the other pages of the batch get what they get alone.
C10_ErrorItemOnAnyFailure ==
    \A p \in Pages :
        PageDone(p) =>
            /\ pg[p].outcome = "fulfilled"
            /\ AnyStepFails(pageWorld[p]) => IsErrorResult(pg[p].value)
            /\ pg[p].value = extractPageContent(pageWorld[p], p).v

\* C10 amended: extractPageContent never rejects; the call resolves with
\* exactly one item, the text 'Error processing page: <message>' at Y = 0,
\* exactly when getPage, getTextContent or getOperatorList fails or an
\* exception leaves the executor of an image (a name that is no string, a
\* callback lookup that throws). A throw of the shared-table lookup or of the
\* synchronous lookup is caught for that image alone and the page returns its
\* content. Every page of a batch gets what it gets alone.
C10_ErrorItemOnPageFailure ==
    \A p \in Pages :
        PageDone(p) =>
            /\ pg[p].outcome = "fulfilled"
            /\ PageFails(pageWorld[p]) =>
                  /\ IsErrorResult(pg[p].value)
                  /\ pg[p].value[1].yPosition = 0
            /\ ~PageFails(pageWorld[p]) =>
                  \A i \in 1..Len(pg[p].value) : ~IsErrorItem(pg[p].value[i])
            /\ pg[p].value = extractPageContent(pageWorld[p], p).v

\* a batch of two pages is done: one failed and is the error item, the other
\* one returned its content
C10_Witness ==
    \E p, q \in Pages :
        /\ PageDone(p) /\ PageDone(q)
        /\ PageFails(pageWorld[p]) /\ IsErrorResult(pg[p].value)
        /\ ~PageFails(pageWorld[q])
        /\ pg[q].value # <<>>
        /\ ~IsErrorItem(pg[q].value[1])

\* the pages the waiting is examined on: one text item, one image name and
\* one image record, the operations differing in what the object tables do
\* for them
WaitingOps ==
    {op \in [fn : {DefaultOp.fn}, hasArgs : {TRUE}, imageName : {DefaultOp.imageName},
             transform5 : {DefaultOp.transform5}, common : {DefaultOp.common},
             sync : {"value", "undefined", "throw"},
             async : {"early", "late", "never", "throws"},
             rec : {DefaultOp.rec}] : Observable(op)}

WaitingText == [str |-> <<"a">>, transform5 |-> Coord(400)]

\* what a failing call leaves unread is left empty
WaitingWorlds ==
    {w \in [getPage : {"ok", "throwError", "throwObject"},
            text : [fail : BOOLEAN, items : {<<>>, <<WaitingText>>}],
            includeImages : BOOLEAN,
            ops : [fail : BOOLEAN,
                   list : UNION {[1..n -> WaitingOps] : n \in 0..(MaxPageCost - 1)}]] :
        /\ PageCost(w) <= MaxPageCost + 2
        /\ w.getPage # "ok" => w.text = NoText /\ ~w.includeImages
        /\ w.text.fail => w.text.items = <<>> /\ ~w.includeImages
        /\ ~w.includeImages => w.ops = NoOps
        /\ w.ops.fail => w.ops.list = <<>>}

\* one call on one page
WaitingInitPage ==
    /\ pageWorld \in [1..1 -> WaitingWorlds]
    /\ pg = [p \in DOMAIN pageWorld |-> NewCall]
    /\ HandlerIdle
    /\ ParserIdle
    /\ PixelsIdle
    /\ RunsIdle

\* the event loop runs every continuation, callback and timer that is ready
LiveSpecPage == WaitingInitPage /\ [][NextPage]_vars /\ WF_vars(NextPage)

\* every call of the batch has returned and no image promise is pending
AllSettled ==
    \A p \in Pages :
        /\ PageDone(p)
        /\ \A k \in 1..Len(pg[p].promises) : pg[p].promises[k].state # "pending"

\* the callback of the image never fires
Hanging(op) == op.fn \in ImageOps /\ ReachesAsync(op) /\ op.async = "never"

\* a hanging image is pending until its timer fires and absent from then on,
\* and a page that did not fail returns its text lines and its other images
\* without an item for the hanging image
HangingSettledAbsent ==
    \A p \in Pages : \A k \in 1..Len(pg[p].promises) :
        Hanging(OpOf(p, k)) =>
            LET pr == pg[p].promises[k]
                lines == textContentItems(groupTextByY(pageWorld[p].text.items, <<>>))
            IN /\ pr.state = (IF pr.timeout = "fired" THEN "fulfilled" ELSE "pending")
               /\ pr.value = Null
               /\ (PageDone(p) /\ ~PageFails(pageWorld[p])) =>
                     /\ pr.timeout = "fired"
                     /\ \A i \in 1..Len(lines) :
                           \E j \in 1..Len(pg[p].value) : pg[p].value[j] = lines[i]
                     /\ \A i \in 1..Len(pg[p].promises) :
                           pg[p].promises[i].value # Null =>
                              \E j \in 1..Len(pg[p].value) :
                                 pg[p].value[j] = pg[p].promises[i].value
                     /\ \A j \in 1..Len(pg[p].value) :
                           pg[p].value[j].type = "image" =>
                              pg[p].value[j].imageData.index # k - 1

\* C11: every image resolution eventually settles and every page call
\* eventually returns; an image whose callback never fires is settled as
\* absent by its timer, and its page still returns its text and its other
\* images, with no item for the hanging image.
C11_BoundedWait == <>[]AllSettled /\ []HangingSettledAbsent

\* a page with a text line, an image that resolved and an image whose callback
\* never fired has returned the text line and the resolved image
C11_Witness ==
    \E p \in Pages : \E k \in 1..Len(pg[p].promises) :
        /\ PageDone(p)
        /\ Hanging(OpOf(p, k))
        /\ pg[p].promises[k].timeout = "fired"
        /\ Len(pg[p].value) = 2
        /\ \E i, j \in 1..2 : pg[p].value[i].type = "text" /\ pg[p].value[j].type = "image"

\* the result of source i is there, its selector was resolved and its
\* document was loaded
Processed(i) ==
    /\ task[i].outcome = "fulfilled"
    /\ getTargetPages(args.sources[i].pages, sourceDescriptionOf(args.sources[i])).ok
    /\ world[i].fail = "none"

RequestedPages(i) ==
    getTargetPages(args.sources[i].pages, sourceDescriptionOf(args.sources[i])).v

\* the requested pages of source i beyond the page count of its document and
\* those within it, ascending
OutOfRange(i) ==
    SortedSeq({p \in SeqToSet(RequestedPages(i).pages) : p > world[i].doc.numPages})
InRange(i) ==
    SortedSeq({p \in SeqToSet(RequestedPages(i).pages) : p <= world[i].doc.numPages})

WarningText(pageNumbers, n) ==
    <<"Requested page numbers ">>
    \o Join([k \in 1..Len(pageNumbers) |-> ToString(pageNumbers[k])], ", ")
    \o <<" exceed total pages (", ToString(n), ").">>

\* C17: requested pages beyond the page count never fail the source: the
\* result is a success, the page texts are those of the in-range pages, and
\* warnings is the one string 'Requested page numbers <p1, p2, ...> exceed
\* total pages (N).'; without such pages there is no warnings field.
C17_OutOfRangeIsWarning ==
    \A i \in DOMAIN task :
        (Processed(i) /\ RequestedPages(i).given) =>
            LET r == task[i].result
            IN /\ r.success
               /\ DataOf(r) # Undef
               /\ IF OutOfRange(i) = <<>>
                  THEN ~Has(r.data, "warnings")
                  ELSE /\ Has(r.data, "warnings")
                       /\ r.data.warnings =
                             <<WarningText(OutOfRange(i), world[i].doc.numPages)>>
               /\ IF InRange(i) = <<>>
                  THEN ~Has(r.data, "page_texts")
                  ELSE /\ Has(r.data, "page_texts")
                       /\ [k \in 1..Len(r.data.page_texts) |-> r.data.page_texts[k].page]
                             = InRange(i)

\* pages 1, 2 and 3 were requested of a document of one page: page 1 is
\* returned and the warning names 2 and 3
C17_Witness ==
    \E i \in DOMAIN task :
        /\ Processed(i)
        /\ RequestedPages(i).given
        /\ OutOfRange(i) = <<2, 3>>
        /\ InRange(i) = <<1>>
        /\ task[i].result.data.warnings =
              << <<"Requested page numbers ", "2", ", ", "3", " exceed total pages (", "1", ").">> >>

\* pages 1..N of the document of source i, joined by a blank line
FullTextOf(i) ==
    JoinText([k \in 1..world[i].doc.numPages |->
                 extractSinglePageText(world[i].doc, k).text], "\n\n")

PageNumbersOf(page_texts) == [k \in 1..Len(page_texts) |-> page_texts[k].page]

\* pages absent: full_text under include_full_text and not otherwise, never
\* page_texts
TextWithoutPages(i, data) ==
    /\ ~Has(data, "page_texts")
    /\ IF args.include_full_text
       THEN Has(data, "full_text") /\ data.full_text = FullTextOf(i)
       ELSE ~Has(data, "full_text")

\* C18 as stated: with pages given the data carries page_texts, one entry
\* for each in-range requested page, ascending, and never full_text; with
\* pages absent it carries full_text exactly under include_full_text and
\* never page_texts.
C18_TextByPagesField ==
    \A i \in DOMAIN task :
        Processed(i) =>
            LET data == task[i].result.data
            IN IF RequestedPages(i).given
               THEN /\ Has(data, "page_texts")
                    /\ PageNumbersOf(data.page_texts) = InRange(i)
                    /\ ~Has(data, "full_text")
               ELSE TextWithoutPages(i, data)

\* C18: with pages given, include_full_text is ignored: the data never has
\* full_text, and it has page_texts, one entry for each in-range requested
\* page, ascending, exactly when some requested page is in range; with pages
\* absent it carries full_text exactly under include_full_text and never
\* page_texts. No result has both fields.
C18_TextByPagesFieldInRange ==
    \A i \in DOMAIN task :
        Processed(i) =>
            LET data == task[i].result.data
            IN /\ ~(Has(data, "page_texts") /\ Has(data, "full_text"))
               /\ IF RequestedPages(i).given
                  THEN /\ ~Has(data, "full_text")
                       /\ IF InRange(i) = <<>> THEN ~Has(data, "page_texts")
                          ELSE /\ Has(data, "page_texts")
                               /\ PageNumbersOf(data.page_texts) = InRange(i)
                  ELSE TextWithoutPages(i, data)

\* a request under include_full_text of one source with pages and one
\* without: the first has page_texts only, the second full_text only
C18_Witness ==
    /\ args.include_full_text
    /\ \E i, j \in DOMAIN task :
          /\ Processed(i) /\ Processed(j)
          /\ RequestedPages(i).given /\ ~RequestedPages(j).given
          /\ Has(task[i].result.data, "page_texts")
          /\ ~Has(task[i].result.data, "full_text")
          /\ Has(task[j].result.data, "full_text")
          /\ ~Has(task[j].result.data, "page_texts")

----------------------------------------------------------------------------
(* The page range resolver                                                  *)

\* the tokens of a range string, without the white space around them
Tokens(ranges) == LET parts == Split(ranges, ",") IN [i \in 1..Len(parts) |-> Trim(parts[i])]

IsNumber(s) == s # <<>> /\ \A i \in 1..Len(s) : s[i] \in Digits
ValueOf(s) == DigitsPrefix(s, 0)

\* a page number 'c', a closed range 'a-b' with 1 <= a <= b, an open range 'd-'
IsPage(t) == IsNumber(t) /\ ValueOf(t) >= 1
DashOf(t) == CHOOSE k \in 1..Len(t) : t[k] = "-"
FromOf(t) == ValueOf(SubSeq(t, 1, DashOf(t) - 1))
ToOf(t) == ValueOf(SubSeq(t, DashOf(t) + 1, Len(t)))
IsRangeForm(t) ==
    /\ Includes(t, "-")
    /\ IsNumber(SubSeq(t, 1, DashOf(t) - 1))
    /\ IsNumber(SubSeq(t, DashOf(t) + 1, Len(t)))
IsClosed(t) == IsRangeForm(t) /\ 1 <= FromOf(t) /\ FromOf(t) <= ToOf(t)
IsOpen(t) ==
    /\ Includes(t, "-") /\ DashOf(t) = Len(t)
    /\ IsNumber(SubSeq(t, 1, Len(t) - 1)) /\ FromOf(t) >= 1

ValidRanges(ranges) ==
    \A i \in 1..Len(Tokens(ranges)) :
        LET t == Tokens(ranges)[i] IN IsPage(t) \/ IsClosed(t) \/ IsOpen(t)

\* the pages a valid token denotes; an open range goes to its safety bound
Denoted(t) ==
    IF IsPage(t) THEN {ValueOf(t)}
    ELSE IF IsClosed(t) THEN FromOf(t)..ToOf(t)
    ELSE FromOf(t)..(FromOf(t) + MAX_RANGE_SIZE)

DenotedPages(ranges) == UNION {Denoted(Tokens(ranges)[i]) : i \in 1..Len(Tokens(ranges))}

StrictlyAscending(s) == \A i \in 1..(Len(s) - 1) : s[i] < s[i + 1]

Parsed == parser.sel.t = "str" /\ parser.parsed.run

\* C12: for every valid range string, parsePageRanges returns a strictly
\* ascending list without duplicates that contains exactly the pages its
\* tokens denote.
C12_SortedExactPages ==
    (Parsed /\ ValidRanges(parser.sel.v)) =>
        LET r == parser.parsed.r
        IN /\ r.ok
           /\ StrictlyAscending(r.v)
           /\ SeqToSet(r.v) = DenotedPages(parser.sel.v)

\* a range string that is one open range 'n-'
OneOpenRange(ranges) == Len(Tokens(ranges)) = 1 /\ IsOpen(Tokens(ranges)[1])

\* C13: an open range 'n-' resolves to exactly the pages n, n+1, ...,
\* n+10000 (10001 pages), one advisory is logged for it, and neither
\* parsePageRanges nor getTargetPages fails.
C13_OpenRangeBounded ==
    (parser.sel.t = "str" /\ OneOpenRange(parser.sel.v)) =>
        LET n == FromOf(Tokens(parser.sel.v)[1])
        IN /\ parser.parsed.run =>
                LET r == parser.parsed.r
                IN /\ r.ok
                   /\ Len(r.v) = MAX_RANGE_SIZE + 1
                   /\ \A i \in 1..Len(r.v) : r.v[i] = n + i - 1
                   /\ r.log = <<n>>
           /\ parser.target.run =>
                /\ parser.target.r.out.ok
                /\ parser.target.r.out.v.given
                /\ Len(parser.target.r.out.v.pages) = MAX_RANGE_SIZE + 1

\* '1-' has been resolved to the pages 1..10001 and the cut has been logged
C13_Witness ==
    /\ Parsed
    /\ parser.sel.v = <<"1", "-">>
    /\ parser.parsed.r.ok
    /\ Len(parser.parsed.r.v) = MAX_RANGE_SIZE + 1
    /\ parser.parsed.r.v[1] = 1
    /\ parser.parsed.r.v[MAX_RANGE_SIZE + 1] = MAX_RANGE_SIZE + 1
    /\ parser.parsed.r.log = <<1>>

\* the resolver cuts the range of token t
Cut(t) == IsOpen(t) \/ (IsClosed(t) /\ ToOf(t) > FromOf(t) + MAX_RANGE_SIZE)

\* C14: only open ranges are clamped and every clamping is reported: the
\* result has every page of every closed range 'a-b', and an advisory is
\* logged for every range that is cut at start+10000.
C14_OnlyOpenClamped ==
    (Parsed /\ ValidRanges(parser.sel.v)) =>
        LET r == parser.parsed.r
        IN /\ r.ok
           /\ \A i \in 1..Len(Tokens(parser.sel.v)) :
                 LET t == Tokens(parser.sel.v)[i]
                 IN /\ IsClosed(t) => (FromOf(t)..ToOf(t)) \subseteq SeqToSet(r.v)
                    /\ Cut(t) => FromOf(t) \in SeqToSet(r.log)

\* a token that is not made of digits, '-' and white space
NonNumeric(t) == t = <<>> \/ \E i \in 1..Len(t) : t[i] \notin Digits \cup {"-", " "}

\* a token with a page value <= 0 or with start > end
BadValue(t) ==
    \/ IsNumber(t) /\ ValueOf(t) <= 0
    \/ IsRangeForm(t) /\ (FromOf(t) <= 0 \/ ToOf(t) <= 0 \/ FromOf(t) > ToOf(t))

\* the selectors that must be refused: a range string (not the empty string,
\* which stands for no selector) with a non-numeric token, a value <= 0 or
\* start > end, and a page array that is empty or has an element that is not
\* a positive integer
InvalidSelector(sel) ==
    \/ /\ sel.t = "str"
       /\ sel.v # <<>>
       /\ \E i \in 1..Len(Tokens(sel.v)) :
             NonNumeric(Tokens(sel.v)[i]) \/ BadValue(Tokens(sel.v)[i])
    \/ /\ sel.t = "arr"
       /\ \/ sel.v = <<>>
          \/ \E i \in 1..Len(sel.v) : i \in sel.frac \/ sel.v[i] <= 0

\* C15: getTargetPages refuses every invalid selector with an InvalidParams
\* error whose message is 'Invalid page specification for source <source>:
\* ...' and returns no page list.
C15_InvalidSelectorRejected ==
    (parser.target.run /\ InvalidSelector(parser.sel)) =>
        LET o == parser.target.r.out
        IN /\ ~o.ok
           /\ o.err.cls = "McpError"
           /\ o.err.code = "InvalidParams"
           /\ o.err.message[3][1] = "Invalid page specification for source "
           /\ o.err.message[3][2] = parser.target.r.source

SplitRan == parser.split.run

\* C16: with target pages, pagesToProcess is the targets <= totalPages and
\* invalidPages the targets > totalPages, both in target order, disjoint and
\* together every target once, whatever the full-document flag; without
\* target pages, pagesToProcess is 1..totalPages under the flag and empty
\* otherwise, and invalidPages is empty.
C16_PartitionByPageCount ==
    SplitRan =>
        LET targetPages == parser.target.r.out.v
            totalPages == parser.split.r.totalPages
            out == parser.split.r.out
        IN IF targetPages.given
           THEN /\ out.pagesToProcess \o out.invalidPages = targetPages.pages
                /\ \A i \in 1..Len(out.pagesToProcess) : out.pagesToProcess[i] <= totalPages
                /\ \A i \in 1..Len(out.invalidPages) : out.invalidPages[i] > totalPages
                /\ SeqToSet(out.pagesToProcess) \cap SeqToSet(out.invalidPages) = {}
                /\ out = determinePagesToProcess(targetPages, totalPages,
                                                 ~parser.split.r.includeFullText)
           ELSE /\ out.pagesToProcess =
                      (IF parser.split.r.includeFullText
                       THEN [i \in 1..totalPages |-> i] ELSE <<>>)
                /\ out.invalidPages = <<>>

\* the targets 1, 2, 3 of a document of two pages have been split into
\* [1, 2] and [3]
C16_Witness ==
    /\ SplitRan
    /\ parser.target.r.out.v.given
    /\ parser.split.r.totalPages = 2
    /\ parser.split.r.out.pagesToProcess = <<1, 2>>
    /\ parser.split.r.out.invalidPages = <<3>>

----------------------------------------------------------------------------
(* The pixel decoder                                                        *)

Encoded == pixels.out.run
PixelCount == pixels.img.width * pixels.img.height
SampleCount == PixelCount * channelsOf(pixels.img.kind)
RasterOut == pixels.out.r.data.raster

\* byte c (0..3) of pixel i (from 0) of the raster
RasterByte(i, c) == RasterOut[4 * i + c + 1]

\* sample k (from 0) of the record's buffer, 0 for a sample it lacks
SampleAt(k) == IF k < Len(pixels.img.data) THEN pixels.img.data[k + 1] ELSE 0

\* what the conversion makes of pixel i, samples the buffer lacks read as 0
PixelConverted(i) ==
    CASE pixels.img.kind = 1 ->
            /\ RasterByte(i, 0) = SampleAt(i)
            /\ RasterByte(i, 1) = SampleAt(i)
            /\ RasterByte(i, 2) = SampleAt(i)
            /\ RasterByte(i, 3) = 255
      [] pixels.img.kind = 2 ->
            /\ RasterByte(i, 0) = SampleAt(3 * i)
            /\ RasterByte(i, 1) = SampleAt(3 * i + 1)
            /\ RasterByte(i, 2) = SampleAt(3 * i + 2)
            /\ RasterByte(i, 3) = 255
      [] pixels.img.kind = 3 ->
            \A c \in 0..3 : RasterByte(i, c) = SampleAt(4 * i + c)

\* C19: with a full sample buffer d of an image of N pixels the raster has
\* exactly 4N bytes; pixel i of RGB input is (d[3i], d[3i+1], d[3i+2], 255)
\* and pixel i of grayscale input is (d[i], d[i], d[i], 255).
C19_FullBufferConversion ==
    (Encoded /\ Len(pixels.img.data) = SampleCount) =>
        /\ Len(RasterOut) = 4 * PixelCount
        /\ \A i \in 0..(PixelCount - 1) : PixelConverted(i)

\* two RGB pixels (255, 0, 0) and (0, 255, 0) and two grayscale pixels 255
\* and 0 have been converted
C19_Witness ==
    /\ Encoded
    /\ \/ /\ pixels.img.kind = 2
          /\ pixels.img.data = <<255, 0, 0, 0, 255, 0>>
          /\ RasterOut = <<255, 0, 0, 255, 0, 255, 0, 255>>
       \/ /\ pixels.img.kind = 1
          /\ pixels.img.data = <<255, 0>>
          /\ RasterOut = <<255, 255, 255, 255, 0, 0, 0, 255>>

\* C20: with a sample buffer shorter than width*height*channels, for every
\* channel count the conversion does not fail, the raster still has
\* exactly 4*width*height bytes and the samples the buffer lacks are 0.
C20_ShortBufferPadded ==
    (Encoded /\ Len(pixels.img.data) < SampleCount) =>
        /\ Len(RasterOut) = 4 * PixelCount
        /\ \A i \in 0..(PixelCount - 1) : PixelConverted(i)

----------------------------------------------------------------------------
(* Images of a page                                                         *)

\* the record is an object with a non-empty sample buffer, a width > 0 and a
\* height > 0
ValidRecord(rec) ==
    /\ rec \notin {Null, NotObject}
    /\ rec.data = "bytes"
    /\ rec.width > 0
    /\ rec.height > 0

\* the items of the page that were made for its k-th image operation
ImageItemsOf(p, k) ==
    SelectSeq(pg[p].value,
              LAMBDA item : item.type = "image" /\ item.imageData.index = k - 1)

\* the text lines of the page
LinesOf(p) == textContentItems(groupTextByY(pageWorld[p].text.items, <<>>))

\* every item of s is an item of t
AllIn(s, t) == \A i \in 1..Len(s) : \E j \in 1..Len(t) : t[j] = s[i]

\* C21: on a page that did not fail, every image in the output comes from a
\* raw record that is an object with a non-empty sample buffer, a width > 0
\* and a height > 0; any other record gives no image and no error, and the
\* text lines of the page are returned all the same.
C21_OnlyValidRecords ==
    \A p \in Pages :
        (PageDone(p) /\ ~PageFails(pageWorld[p])) =>
            /\ AllIn(LinesOf(p), pg[p].value)
            /\ \A i \in 1..Len(pg[p].value) : ~IsErrorItem(pg[p].value[i])
            /\ \A k \in 1..Len(pg[p].promises) :
                  ImageItemsOf(p, k) # <<>> => ValidRecord(OpOf(p, k).rec)

\* the image of promise k of page p went to the callback lookup
OnCallbackPath(p, k) == pg[p].promises[k].callback # "none"

\* what the callback makes of the record it is given
CallbackValue(p, k) == processImageData(OpOf(p, k).rec, yPositionOf(OpOf(p, k)), p, k - 1)

\* the callback came first: the value is the callback's and the timer is off;
\* the timer came first: the image is absent, also after a late callback
ResolvedByTheFirst ==
    \A p \in Pages : \A k \in 1..Len(pg[p].promises) :
        LET pr == pg[p].promises[k]
        IN OnCallbackPath(p, k) =>
              /\ pr.state \in {"pending", "fulfilled"}
              /\ pr.state = "pending" <=> ~pr.resolved
              /\ pr.timeout = "cleared" =>
                    /\ pr.callback = "called"
                    /\ pr.state = "fulfilled"
                    /\ pr.value = CallbackValue(p, k)
              /\ pr.timeout = "fired" => pr.state = "fulfilled" /\ pr.value = Null
              /\ pr.timeout = "armed" => pr.state = "pending" /\ pr.callback = "registered"

\* a settled promise keeps its value, a cleared timer stays cleared
SettledOnce ==
    \A p \in Pages : \A k \in 1..Len(pg[p].promises) :
        LET pr == pg[p].promises[k]
            next == pg'[p].promises[k]
        IN /\ pr.state # "pending" =>
                 /\ next.state = pr.state
                 /\ next.value = pr.value
                 /\ next.reason = pr.reason
           /\ pr.resolved => next.resolved
           /\ pr.timeout = "cleared" => next.timeout = "cleared"

\* C22: on the callback path every image is resolved at most once: from the
\* callback's value when the callback fires before the timer, the timer being
\* cleared and doing nothing later, and as absent when the timer fires first,
\* a callback that arrives later changing nothing.
C22_SingleResolution == []ResolvedByTheFirst /\ [][SettledOnce]_vars

\* the callback of an image with a valid record arrived after its timer had
\* fired, and the image is still absent
C22_Witness ==
    \E p \in Pages : \E k \in 1..Len(pg[p].promises) :
        /\ OpOf(p, k).async = "late"
        /\ ValidRecord(OpOf(p, k).rec)
        /\ pg[p].promises[k].timeout = "fired"
        /\ pg[p].promises[k].callback = "called"
        /\ pg[p].promises[k].state = "fulfilled"
        /\ pg[p].promises[k].value = Null

\* the lookups made for image k of page p
LookupsOf(p, k) == pg[p].lookups[k]
Made(p, k, call) == \E i \in 1..Len(LookupsOf(p, k)) : LookupsOf(p, k)[i] = call

TierOrder == <<"commonObjs.get", "objs.get", "setTimeout", "objs.get callback">>
TierOf(call) == CHOOSE t \in 1..Len(TierOrder) : TierOrder[t] = call

\* a lookup that yielded nothing: it threw, or it returned no value
SharedYieldedNothing(op) == op.common \in {"undefined", "throw"} \/ op.rec = Null
SyncYieldedNothing(op) == op.sync \in {"undefined", "throw"}

\* the reference of the operation names an image
NamesImage(op) == op.hasArgs /\ op.imageName.isString

\* C23: for every image reference the tiers are tried in the order shared
\* table (only for a name that starts with g_), synchronous lookup in the
\* private table, callback lookup under a timer; a tier is tried exactly when
\* every earlier tier yielded nothing, and no callback lookup and no timer
\* is started when the shared table or the synchronous lookup returned a
\* value.
C23_LookupOrder ==
    \A p \in Pages : \A k \in 1..Len(pg[p].promises) :
        LET op == OpOf(p, k)
            made == LookupsOf(p, k)
            pr == pg[p].promises[k]
            triesShared == NamesImage(op) /\ startsWith(op.imageName.chars, <<"g", "_">>)
            triesSync == NamesImage(op) /\ (triesShared => SharedYieldedNothing(op))
            triesCallback == triesSync /\ SyncYieldedNothing(op)
        IN /\ \A i, j \in 1..Len(made) : i < j => TierOf(made[i]) < TierOf(made[j])
           /\ Made(p, k, "commonObjs.get") <=> triesShared
           /\ Made(p, k, "objs.get") <=> triesSync
           /\ Made(p, k, "setTimeout") <=> triesCallback
           /\ Made(p, k, "objs.get callback") <=> triesCallback
           /\ ~triesCallback => pr.timeout = "none" /\ pr.callback = "none"
           /\ (triesCallback /\ pr.state # "rejected") => pr.callback # "none" /\ pr.timeout # "none"

\* an image with a g_ name that neither the shared table nor the synchronous
\* lookup had went through the three tiers in order and was resolved by its
\* callback
C23_Witness ==
    \E p \in Pages : \E k \in 1..Len(pg[p].promises) :
        /\ LookupsOf(p, k) = TierOrder
        /\ OpOf(p, k).common = "undefined"
        /\ OpOf(p, k).sync = "undefined"
        /\ pg[p].promises[k].callback = "called"
        /\ pg[p].promises[k].value # Null

\* the three calls made for the page itself succeed and images are asked for
PageCallsSucceed(w) == w.getPage = "ok" /\ ~w.text.fail /\ w.includeImages /\ ~w.ops.fail

\* C24: a failure confined to one image never fails its page: when getPage,
\* getTextContent and getOperatorList succeed, whatever happens to the
\* lookup, the reference, the record or the callback of an image, the page
\* returns all its text lines and every image that resolved, and not the
\* 'Error processing page' item.
C24_ImageFailureNeverFailsPage ==
    \A p \in Pages :
        (PageDone(p) /\ PageCallsSucceed(pageWorld[p])) =>
            /\ \A i \in 1..Len(pg[p].value) : ~IsErrorItem(pg[p].value[i])
            /\ AllIn(LinesOf(p), pg[p].value)
            /\ \A k \in 1..Len(pg[p].promises) :
                  pg[p].promises[k].value # Null =>
                      \E j \in 1..Len(pg[p].value) : pg[p].value[j] = pg[p].promises[k].value

\* items of equal Y are in collection order: text before images, images in
\* the order of their paint operations
EqualYInCollectionOrder(items) ==
    \A i, j \in 1..Len(items) :
        (i < j /\ items[i].yPosition = items[j].yPosition) =>
            /\ ~(items[i].type = "image" /\ items[j].type = "text")
            /\ (items[i].type = "image" /\ items[j].type = "image") =>
                  items[i].imageData.index < items[j].imageData.index

----------------------------------------------------------------------------
(* Text lines of a page                                                     *)

\* the text runs of the page that have a Y, in encounter order
RunsOf(p) == SelectSeq(pageWorld[p].text.items, LAMBDA run : run.transform5.given)

\* the Y of a run, rounded
LineOfRun(run) == MathRound(run.transform5.h)

\* the strings of the runs of line y, one after the other
RECURSIVE Concatenated(_)
Concatenated(runs) ==
    IF runs = <<>> THEN <<>> ELSE Head(runs).str \o Concatenated(Tail(runs))

LineString(p, y) == Concatenated(SelectSeq(RunsOf(p), LAMBDA run : LineOfRun(run) = y))

\* a string of blanks only
Blank(str) == \A i \in 1..Len(str) : IsSpace(str[i])

\* the text items of the page's output
TextItemsOf(p) == SelectSeq(pg[p].value, LAMBDA item : item.type = "text")

\* C29: in the output of a page that did not fail there is at most one text
\* item per rounded Y; its string is the concatenation, in encounter order,
\* of the strings of all runs whose Y rounds to that value; no text item is
\* empty or blank; and every line that is not blank has its text item, so
\* that every run of such a line is in exactly one item.
C29_TextLineGrouping ==
    \A p \in Pages :
        (PageDone(p) /\ ~PageFails(pageWorld[p])) =>
            LET texts == TextItemsOf(p)
                runs == RunsOf(p)
            IN /\ \A i, j \in 1..Len(texts) :
                     texts[i].yPosition = texts[j].yPosition => i = j
               /\ \A i \in 1..Len(texts) :
                     /\ texts[i].textContent = LineString(p, texts[i].yPosition)
                     /\ ~Blank(texts[i].textContent)
               /\ \A r \in 1..Len(runs) :
                     ~Blank(LineString(p, LineOfRun(runs[r]))) =>
                        \E i \in 1..Len(texts) : texts[i].yPosition = LineOfRun(runs[r])

\* runs 'a' at Y = 200 and 'b' at Y = 199.5 came back as the one line 'ab' at
\* Y = 200, next to a line at Y = 50
C29_Witness ==
    \E p \in Pages :
        /\ PageDone(p)
        /\ Len(RunsOf(p)) = 3
        /\ Len(pg[p].value) = 2
        /\ pg[p].value[1] = [type |-> "text", yPosition |-> 200, textContent |-> <<"a", "b">>]
        /\ pg[p].value[2].yPosition = 50

----------------------------------------------------------------------------
(* The steps of one source                                                  *)

\* the resolution of the selector of source i
SelectorOf(i) == getTargetPages(args.sources[i].pages, sourceDescriptionOf(args.sources[i]))

\* the call of source i has been created
Created(i) == i \in DOMAIN task /\ task[i].pc # "idle"

\* C26: for a source of an accepted request whose selector is invalid the
\* loader is never invoked, the result of the source is the failure with the
\* selector's error, and the request is not rejected.
C26_SelectorBeforeLoad ==
    \A i \in DOMAIN task :
        (Created(i) /\ ~SelectorOf(i).ok) =>
            /\ <<"loadPdfDocument", i>> \notin calls
            /\ task[i].pc = "done" =>
                  /\ task[i].outcome = "fulfilled"
                  /\ ~task[i].result.success
                  /\ task[i].result.error = SelectorOf(i).err.message
            /\ phase # "rejected"

\* the metadata step of source i ran
MetadataStepDone(i) ==
    Created(i) /\ ~SourceFails(i) /\ task[i].pc \in {"texts", "images", "done"}

\* getMetadata rejects for the document of source i
MetadataFails(i) == args.include_metadata /\ ~world[i].doc.metaOk

\* the output of source i once the metadata step ran
OutputOf(i) == IF task[i].pc = "done" THEN DataOf(task[i].result) ELSE task[i].output

\* C27: getMetadata is called only when metadata is requested; when it
\* rejects, the output of the source has neither info nor metadata, it has
\* num_pages exactly when the page count was requested, and the source goes
\* on and ends with success = true.
C27_MetadataFailureTolerated ==
    \A i \in DOMAIN task :
        /\ <<"getMetadata", i>> \in calls => args.include_metadata
        /\ MetadataStepDone(i) =>
              /\ args.include_metadata => <<"getMetadata", i>> \in calls
              /\ task[i].pc = "done" => task[i].outcome = "fulfilled" /\ task[i].result.success
              /\ MetadataFails(i) =>
                    /\ ~Has(OutputOf(i), "info")
                    /\ ~Has(OutputOf(i), "metadata")
                    /\ Has(OutputOf(i), "num_pages") <=> args.include_page_count
                    /\ args.include_page_count =>
                          OutputOf(i).num_pages = world[i].doc.numPages

\* a source whose getMetadata rejected succeeded with its page count and its
\* text
C27_Witness ==
    \E i \in DOMAIN task :
        /\ MetadataStepDone(i)
        /\ MetadataFails(i)
        /\ task[i].pc = "done"
        /\ task[i].result.success
        /\ Has(task[i].result.data, "num_pages")
        /\ Has(task[i].result.data, "full_text")

----------------------------------------------------------------------------
(* extractPageTexts                                                         *)

TextsOut == textRun.out.r

\* the entry of page pageNum: its text, or the error text when one of its two
\* calls fails
ExpectedEntry(pageNum) ==
    LET doc == textRun.doc
    IN IF pageNum \notin DOMAIN doc
       THEN [page |-> pageNum, text |-> <<"Error processing page: ", "Invalid page request.">>]
       ELSE IF doc[pageNum] = "getPageFails"
       THEN [page |-> pageNum,
             text |-> <<"Error processing page: ", "Failed to get page ", ToString(pageNum)>>]
       ELSE IF doc[pageNum] = "getTextContentFails"
       THEN [page |-> pageNum,
             text |-> <<"Error processing page: ", "Failed to get text of page ",
                        ToString(pageNum)>>]
       ELSE [page |-> pageNum, text |-> <<"text of page ", ToString(pageNum)>>]

\* how often page pageNum occurs in a list of pages
Occurrences(list, pageNum) == Cardinality({k \in 1..Len(list) : list[k] = pageNum})

\* C28: whatever the list of requested pages and the order in which the
\* per-page calls complete, the result has one entry per requested page, in
\* ascending order of page number; the entry of a page whose getPage or
\* getTextContent fails is the error text with the message, and the entry of
\* every other page is its text, as it is when no page fails.
C28_OneEntryPerPageSorted ==
    textRun.out.run =>
        /\ Len(TextsOut) = Len(textRun.pagesToProcess)
        /\ \A i, j \in 1..Len(TextsOut) : i < j => TextsOut[i].page <= TextsOut[j].page
        /\ \A pageNum \in 1..(MaxTextPages + 1) :
              Occurrences([i \in 1..Len(TextsOut) |-> TextsOut[i].page], pageNum)
                 = Occurrences(textRun.pagesToProcess, pageNum)
        /\ \A i \in 1..Len(TextsOut) : TextsOut[i] = ExpectedEntry(TextsOut[i].page)

\* pages [2, 1] were asked for, the call of page 1 completed before the call
\* of page 2, page 2 failed, and the result is page 1 with its text followed
\* by page 2 with the error text
C28_Witness ==
    /\ textRun.out.run
    /\ textRun.pagesToProcess = <<2, 1>>
    /\ textRun.completed = <<2, 1>>
    /\ 2 \in DOMAIN textRun.doc
    /\ textRun.doc[2] # "ok"
    /\ Len(TextsOut) = 2
    /\ TextsOut[1] = [page |-> 1, text |-> <<"text of page ", "1">>]
    /\ TextsOut[2].page = 2
    /\ Head(TextsOut[2].text) = "Error processing page: "

----------------------------------------------------------------------------
(* extractImages                                                            *)

ImagesOut == imageRun.out.r

\* the position of a page in the list of pages to process
PositionOf(list, pageNum) == CHOOSE k \in 1..Len(list) : list[k] = pageNum

\* C30: the image of the k-th image paint operation of a page (k from 0)
\* carries index k, also when earlier operations of the page gave no image;
\* the images of a page have distinct indices, and the image list is ordered
\* by page in processing order and, within a page, by increasing index.
C30_ImageIndexIsOperationIndex ==
    imageRun.out.run =>
        LET doc == imageRun.doc
            list == imageRun.pagesToProcess
        IN /\ \A a \in 1..Len(ImagesOut) :
                 LET im == ImagesOut[a]
                 IN /\ \E k \in 1..Len(list) : list[k] = im.page
                    /\ im.page # doc.failPage
                    /\ im.index \in 0..(Len(doc.imgs[im.page]) - 1)
                    /\ doc.imgs[im.page][im.index + 1] = im.format
           /\ \A k \in 1..Len(list) :
                 list[k] # doc.failPage =>
                    \A n \in 1..Len(doc.imgs[list[k]]) :
                       doc.imgs[list[k]][n] # "absent" =>
                          \E a \in 1..Len(ImagesOut) :
                             ImagesOut[a].page = list[k] /\ ImagesOut[a].index = n - 1
           /\ \A a, b \in 1..Len(ImagesOut) :
                 a < b =>
                    \/ PositionOf(list, ImagesOut[a].page) < PositionOf(list, ImagesOut[b].page)
                    \/ /\ ImagesOut[a].page = ImagesOut[b].page
                       /\ ImagesOut[a].index < ImagesOut[b].index

\* a page whose first image operation gave no image: its second image came
\* out with index 1
C30_Witness ==
    /\ imageRun.out.run
    /\ imageRun.doc.imgs[1] = <<"absent", "rgb">>
    /\ imageRun.pagesToProcess = <<1>>
    /\ Len(ImagesOut) = 1
    /\ ImagesOut[1].page = 1
    /\ ImagesOut[1].index = 1

====
